---- MODULE Spec2Model ----
(***************************************************************************)
(* Model of the OpenClaw knowledge-base indexer and query engine:          *)
(*   index.js   (main, indexReleaseChangelogs, discoverFiles)              *)
(*   lib/db.js  (files/chunks/chunks_fts/chunks_vec tables and searches)   *)
(*   lib/chunker.js (chunkFile, buildChunk, getOverlap, deriveMetadata)    *)
(*   lib/embedder.js (embedAll, embedBatch)                                *)
(* The database is the committed SQLite state: every autocommit statement  *)
(* and every COMMIT is one step, so a reader in another process can        *)
(* observe the store between any two steps of an indexing run.             *)
(***************************************************************************)
EXTENDS Integers, Sequences, FiniteSets, TLC

\* ------------------------------------------------------------------------
\* Program constants
\* ------------------------------------------------------------------------
CHUNK_MAX_CHARS == 1600
CHUNK_OVERLAP_CHARS == 200
CODE_MAX_CHARS == 1200
EMBEDDING_BATCH_SIZE == 50
MAX_RETRIES == 3
RRF_K == 60

\* ------------------------------------------------------------------------
\* Bounds of the model
\* ------------------------------------------------------------------------
MaxRuns == 2
MaxFaults == 1
MaxLimit == 2
MaxRrfLimit == 31
MaxLines == 4
MaxHandlerLines == 6
MaxWords == 2

\* ------------------------------------------------------------------------
\* Text.  A file's content is a sequence of pieces: a piece is either the
\* newline character NL or a maximal run of non-newline characters, given by
\* its length, the line pattern it matches and the search token it holds.
\* ------------------------------------------------------------------------
NL == [len |-> 1, kind |-> "newline", tok |-> "none"]
EmptyLine == [len |-> 0, kind |-> "blank", tok |-> "none"]
Line(n, k, t) == [len |-> n, kind |-> k, tok |-> t]

\* content.split('\n'): the pieces between newlines; an empty string between
\* two newlines, before the first or after the last one, is an empty line.
RECURSIVE split(_)
split(content) ==
    IF content = <<>> THEN <<EmptyLine>>
    ELSE IF Head(content) = NL THEN <<EmptyLine>> \o split(Tail(content))
    ELSE IF Len(content) = 1 THEN <<Head(content)>>
    ELSE <<Head(content)>> \o split(Tail(Tail(content)))

\* The content whose lines are ls: the lines joined by newlines (an empty
\* line contributes no piece).
RECURSIVE joinLines(_)
joinLines(ls) ==
    IF ls = <<>> THEN <<>>
    ELSE (IF Head(ls) = EmptyLine THEN <<>> ELSE <<Head(ls)>>)
         \o (IF Len(ls) > 1 THEN <<NL>> \o joinLines(Tail(ls)) ELSE <<>>)

\* createHash('sha256').update(x).digest('hex'): collision-free digest.
sha256(x) == <<"sha256", x>>

\* ------------------------------------------------------------------------
\* Paths: directory segments and the dot-separated parts of the file name.
\* ------------------------------------------------------------------------
Path(d, n) == [dirs |-> d, name |-> n]
Ext(relPath) == relPath.name[Len(relPath.name)]
InDir(relPath, d) == \E i \in 1..Len(relPath.dirs) : relPath.dirs[i] = d
NameHas(relPath, part) == \E i \in 1..(Len(relPath.name) - 1) : relPath.name[i] = part

categoryMap(source) ==
    CASE source = "docs" -> "documentation"
      [] source = "config" -> "config-schema"
      [] source = "gateway" -> "core"
      [] source = "telegram" -> "channels"
      [] source = "channels" -> "channels"
      [] source = "skills" -> "skills"
      [] source = "skill-examples" -> "skills"
      [] source = "agents" -> "core"
      [] source = "memory" -> "core"
      [] source = "infra" -> "infrastructure"
      [] source = "security" -> "security"
      [] source = "hooks" -> "automation"
      [] source = "sessions" -> "core"
      [] source = "providers" -> "integrations"
      [] source = "plugins" -> "plugins"
      [] OTHER -> source

deriveMetadata(relPath, source) ==
    LET ext == Ext(relPath)
        contentType ==
            IF ext = "md" THEN (IF InDir(relPath, "skills") THEN "skill" ELSE "docs")
            ELSE IF ext = "ts" \/ ext = "js"
                 THEN (IF NameHas(relPath, "zod-schema") \/ NameHas(relPath, "types")
                       THEN "config" ELSE "code")
                 ELSE "unknown"
        language ==
            IF ext = "md" THEN "markdown"
            ELSE IF ext = "ts" THEN "typescript"
            ELSE IF ext = "js" THEN "javascript"
            ELSE "null"
    IN [contentType |-> contentType, language |-> language,
        category |-> categoryMap(source)]

\* ------------------------------------------------------------------------
\* Chunker
\* ------------------------------------------------------------------------
RECURSIVE SumChars(_)
SumChars(ls) == IF ls = <<>> THEN 0 ELSE Head(ls).len + 1 + SumChars(Tail(ls))

\* The text of a chunk: the header "// File: <path> (lines a-b)" and the
\* lines joined by newlines.
ChunkText(lines, startLine, endLineExclusive, relPath) ==
    [path |-> relPath, from |-> startLine, to |-> endLineExclusive, lines |-> lines]

buildChunk(lines, startLine, endLineExclusive, relPath, source, metadata) ==
    LET text == ChunkText(lines, startLine, endLineExclusive, relPath)
        hash == sha256(text)
    IN [id |-> <<hash, startLine>>,
        path |-> relPath,
        source |-> source,
        startLine |-> startLine,
        endLine |-> endLineExclusive,
        text |-> text,
        contentType |-> metadata.contentType,
        language |-> metadata.language,
        category |-> metadata.category]

\* The backward walk of getOverlap from line j of chunkLines.
RECURSIVE OverlapWalk(_, _, _, _)
OverlapWalk(chunkLines, j, overlapChars, overlapLines) ==
    IF j < 1 THEN overlapLines
    ELSE LET chars == overlapChars + chunkLines[j].len + 1
         IN IF chars > CHUNK_OVERLAP_CHARS THEN overlapLines
            ELSE OverlapWalk(chunkLines, j - 1, chars, <<chunkLines[j]>> \o overlapLines)

\* An overlap taken from the front of the chunk.
getOverlapFront(chunkLines, chunkStart, currentLineIndex) ==
    [overlapLines |-> <<chunkLines[1]>>, overlapStart |-> currentLineIndex]
getOverlap(chunkLines, chunkStart, currentLineIndex) ==
    LET overlapLines == OverlapWalk(chunkLines, Len(chunkLines), 0, <<>>)
    IN [overlapLines |-> overlapLines,
        overlapStart |-> currentLineIndex - Len(overlapLines) + 1]

isHeading(line) == line.kind = "heading"
isBlank(line) == line.kind = "blank"
isFunctionDecl(line) == line.kind = "function"
isClassDecl(line) == line.kind = "class"
isTypeDecl(line) == line.kind = "type"
isConstFunc(line) == line.kind = "constfunc"

\* A decision that breaks at every line.
shouldBreakAlways(line, isCodeFile, charCount, maxChars) == TRUE
shouldBreak(line, isCodeFile, charCount, maxChars) ==
    LET isStrongBoundary ==
            isCodeFile /\ (isFunctionDecl(line) \/ isClassDecl(line)
                           \/ isTypeDecl(line) \/ isConstFunc(line))
        isWeakBoundary == isHeading(line) \/ isBlank(line)
    IN isStrongBoundary \/ (~isCodeFile /\ isWeakBoundary)
       \/ 10 * charCount > 12 * maxChars

\* The loop of chunkFile over lines[i], i the 0-based index of the code.
RECURSIVE ChunkLoop(_, _, _, _, _, _, _, _)
ChunkLoop(lines, i, st, isCodeFile, maxChars, relPath, source, metadata) ==
    IF i >= Len(lines) THEN st
    ELSE
      LET line == lines[i + 1]
          lineLen == line.len + 1
          brk == /\ st.charCount + lineLen > maxChars
                 /\ Len(st.chunkLines) > 0
                 /\ shouldBreak(line, isCodeFile, st.charCount, maxChars)
          ov == getOverlap(st.chunkLines, st.chunkStart, i)
          s1 == IF brk
                THEN [chunks |-> Append(st.chunks,
                                   buildChunk(st.chunkLines, st.chunkStart, i,
                                              relPath, source, metadata)),
                      chunkLines |-> ov.overlapLines,
                      chunkStart |-> ov.overlapStart,
                      charCount |-> SumChars(ov.overlapLines)]
                ELSE st
          s2 == [s1 EXCEPT !.chunkLines = Append(s1.chunkLines, line),
                           !.charCount = s1.charCount + lineLen]
      IN ChunkLoop(lines, i + 1, s2, isCodeFile, maxChars, relPath, source, metadata)

chunkFile(content, relPath, source) ==
    LET lines == split(content)
        metadata == deriveMetadata(relPath, source)
        isCodeFile == metadata.language = "typescript" \/ metadata.language = "javascript"
        maxChars == IF isCodeFile THEN CODE_MAX_CHARS ELSE CHUNK_MAX_CHARS
        st0 == [chunks |-> <<>>, chunkLines |-> <<>>, chunkStart |-> 1, charCount |-> 0]
        st == ChunkLoop(lines, 0, st0, isCodeFile, maxChars, relPath, source, metadata)
    IN IF Len(lines) = 0 THEN <<>>
       ELSE IF Len(st.chunkLines) > 0
            THEN Append(st.chunks,
                        buildChunk(st.chunkLines, st.chunkStart, Len(lines),
                                   relPath, source, metadata))
            ELSE st.chunks

\* ------------------------------------------------------------------------
\* The modelled source tree, sources and releases
\* ------------------------------------------------------------------------
PathDoc == Path(<<"docs">>, <<"a", "md">>)
PathHandler == Path(<<"skills", "x">>, <<"handler", "ts">>)
\* The discoverable paths in the order of Array.prototype.sort().
PathOrder == <<PathDoc, PathHandler>>
Paths == {PathOrder[i] : i \in 1..Len(PathOrder)}

\* The contents a file can have: a one-line file, a file of two chunks
\* (lines of 1000 and 700 characters, a blank line, a line of 300), and a
\* module of MaxHandlerLines function declarations of 1000 characters.
FileVersions ==
    << <<Line(10, "text", "alpha")>>,
       <<Line(1000, "text", "alpha"), NL, Line(700, "text", "beta"), NL, NL,
         Line(300, "text", "gamma")>>,
       joinLines([i \in 1..MaxHandlerLines |-> Line(1000, "function", "gamma")]) >>
Versions == 1..Len(FileVersions)
Absent == 0
\* The contents each path takes: the document is rewritten, the handler is not.
VersionsOf(p) == IF p = PathDoc THEN {1, 2} ELSE {1}
Trees == {t \in [Paths -> {Absent} \cup Versions] :
             \A p \in Paths : t[p] \in {Absent} \cup VersionsOf(p)}

\* Release tags: the digits of the last component of v2026.2.<n>.
V9 == <<"9">>
V12 == <<"1", "2">>
Tags == {V9, V12}
NoRelease == <<>>
\* The release a sync run records with insertRelease, and ORDER BY r.date DESC.
ReleaseOrder == <<V12>>

\* The entries of SOURCES whose globs match a modelled path, in their order.
SOURCES == <<"docs", "skill-examples">>

matchSource(relPath, source) ==
    CASE source = "docs" ->
           /\ relPath.dirs[1] = "docs"
           /\ Ext(relPath) = "md"
           /\ ~(Len(relPath.dirs) >= 2 /\ relPath.dirs[2] \in {"ja-JP", "zh-CN", ".i18n"})
      [] source = "skills" ->
           /\ Len(relPath.dirs) = 2
           /\ relPath.dirs[1] = "skills"
           /\ relPath.name = <<"SKILL", "md">>
      [] source = "skill-examples" ->
           /\ Len(relPath.dirs) = 2
           /\ relPath.dirs[1] = "skills"
           /\ relPath.name \in {<<"SKILL", "md">>, <<"handler", "ts">>}
      [] OTHER -> FALSE

VARIABLES
    tree,           \* path -> version of the file in the upstream checkout, or Absent
    head,           \* the release tag the upstream checkout is at
    releases,       \* table releases: the tags stored by insertRelease
    files,          \* table files: path -> [source, hash, indexed_release]
    chunks,         \* table chunks: rows keyed by id
    chunks_fts,     \* table chunks_fts: rows in rowid order
    chunks_vec,     \* table chunks_vec: rows keyed by id
    pc,             \* position of the indexing process in main()
    force,          \* flags.force
    currentRelease, \* currentRelease of main()
    vecLoaded,      \* vecLoaded of db.js in the indexing process
    srcIdx,         \* index of `source` in SOURCES
    fileIdx,        \* index of `filePath` in files
    chunksToEmbed,  \* chunksToEmbed / chunkMetadata
    embeddings,     \* result of embedAll
    allDiscoveredPaths,
    totals,         \* totalNew, totalUpdated, totalSkipped, totalDeleted
    del,            \* deleteChunksByPath in progress: path, ids left, caller
    sweepPaths,     \* indexedPaths still to visit in the clean-up loop
    relPending,     \* releases still to visit in indexReleaseChangelogs
    hist,           \* history of the runs (observation only)
    qres            \* the last query issued by a reader process

dbVars == <<files, chunks, chunks_fts, chunks_vec>>
envVars == <<tree, head, releases>>
procVars == <<pc, force, currentRelease, vecLoaded, srcIdx, fileIdx, chunksToEmbed,
              embeddings, allDiscoveredPaths, totals, del, sweepPaths, relPending>>
vars == <<envVars, dbVars, procVars, hist, qres>>

\* ------------------------------------------------------------------------
\* db.js: file tracking
\* ------------------------------------------------------------------------
NoHash == <<"null", <<>>>>

getFileHash(path) == IF path \in DOMAIN files THEN files[path].hash ELSE NoHash

upsertFile(tbl, path, source, hash, indexedRelease) ==
    [p \in (DOMAIN tbl) \cup {path} |->
        IF p = path
        THEN [source |-> source, hash |-> hash, indexed_release |-> indexedRelease]
        ELSE tbl[p]]

deleteFile(tbl, path) == [p \in (DOMAIN tbl) \ {path} |-> tbl[p]]

\* A deterministic enumeration of a finite set (the row order of a SELECT).
RECURSIVE SetToSeq(_)
SetToSeq(S) ==
    IF S = {} THEN <<>>
    ELSE LET x == CHOOSE y \in S : TRUE IN <<x>> \o SetToSeq(S \ {x})

getAllFilePaths(tbl) == SetToSeq(DOMAIN tbl)

\* ------------------------------------------------------------------------
\* db.js: chunk operations
\* ------------------------------------------------------------------------
ChunkIdsOf(tbl, path) == {r.id : r \in {x \in tbl : x.path = path}}
DeleteChunkRows(tbl, path) == {r \in tbl : r.path # path}
\* A keyword delete that removes nothing.
DeleteFtsRowsNone(tbl, id) == tbl
DeleteFtsRows(tbl, id) == SelectSeq(tbl, LAMBDA r : r.id # id)
DeleteVecRows(tbl, id) == {r \in tbl : r.id # id}

ChunkRow(c, indexedRelease) ==
    [id |-> c.id, path |-> c.path, source |-> c.source,
     start_line |-> c.startLine, end_line |-> c.endLine, text |-> c.text,
     content_type |-> c.contentType, language |-> c.language,
     category |-> c.category, indexed_release |-> indexedRelease]
FtsRow(c, indexedRelease) ==
    [text |-> c.text, id |-> c.id, path |-> c.path, source |-> c.source,
     content_type |-> c.contentType, language |-> c.language,
     indexed_release |-> indexedRelease]
VecRow(c, embedding) == [id |-> c.id, embedding |-> embedding]

\* A write that stores nothing.
InsertOrReplaceNone(tbl, row) == tbl
InsertOrReplace(tbl, row) == {r \in tbl : r.id # row.id} \cup {row}

\* ------------------------------------------------------------------------
\* embedder.js
\* ------------------------------------------------------------------------
\* What a request to the embeddings endpoint ends in: HTTP 200, 429 or 500,
\* or 0 when fetch itself rejects (a network-level failure).
Statuses == {200, 429, 500, 0}
\* The answers to the requests of one batch: k times 429, then status s (the
\* requests after the one that settles the batch are never made).
ResponseSeqs ==
    {[i \in 1..(MAX_RETRIES + 1) |-> IF i <= k THEN 429 ELSE IF i = k + 1 THEN s ELSE 200] :
        k \in 0..(MAX_RETRIES + 1), s \in Statuses}

TokAxis(t) ==
    CASE t = "alpha" -> 0 [] t = "beta" -> 1 [] t = "gamma" -> 2 [] OTHER -> 3

\* The vector the embedding model returns for a text.
EmbeddingOf(text) ==
    IF text.lines = <<>> THEN 3 ELSE TokAxis(text.lines[1].tok)

\* A retry loop that also retries after the last attempt's 429 and then
\* falls out of the loop.
RECURSIVE EmbedAttemptsRetryLast(_, _, _)
EmbedAttemptsRetryLast(texts, responses, attempt) ==
    IF attempt > MAX_RETRIES
    THEN [result |-> "undefined", vectors |-> <<>>, requests |-> attempt]
    ELSE IF responses[attempt + 1] = 429
         THEN EmbedAttemptsRetryLast(texts, responses, attempt + 1)
         ELSE IF responses[attempt + 1] = 200
              THEN [result |-> "ok",
                    vectors |-> [i \in 1..Len(texts) |-> EmbeddingOf(texts[i])],
                    requests |-> attempt + 1]
              ELSE [result |-> "error", vectors |-> <<>>, requests |-> attempt + 1]

\* The retry loop of embedBatch from `attempt` on; responses[attempt + 1] is
\* the answer to the request of that attempt.
RECURSIVE EmbedAttempts(_, _, _)
EmbedAttempts(texts, responses, attempt) ==
    IF attempt > MAX_RETRIES
    THEN [result |-> "undefined", vectors |-> <<>>, requests |-> attempt]
    ELSE LET status == responses[attempt + 1]
         IN IF status = 0
            THEN [result |-> "error", vectors |-> <<>>, requests |-> attempt + 1]
            ELSE IF status = 200
            THEN [result |-> "ok",
                  vectors |-> [i \in 1..Len(texts) |-> EmbeddingOf(texts[i])],
                  requests |-> attempt + 1]
            ELSE IF status = 429 /\ attempt < MAX_RETRIES
                 THEN EmbedAttempts(texts, responses, attempt + 1)
                 ELSE [result |-> "error", vectors |-> <<>>, requests |-> attempt + 1]

embedBatch(texts, responses) == EmbedAttempts(texts, responses, 0)

NumBatches(n) == (n + EMBEDDING_BATCH_SIZE - 1) \div EMBEDDING_BATCH_SIZE
Min(a, b) == IF a < b THEN a ELSE b

\* embedAll: batch b holds texts[i+1 .. i+EMBEDDING_BATCH_SIZE], i the offset.
RECURSIVE EmbedBatches(_, _, _, _)
EmbedBatches(texts, net, i, results) ==
    IF i >= Len(texts) THEN [result |-> "ok", vectors |-> results]
    ELSE LET batch == SubSeq(texts, i + 1, Min(i + EMBEDDING_BATCH_SIZE, Len(texts)))
             r == embedBatch(batch, net[(i \div EMBEDDING_BATCH_SIZE) + 1])
         IN IF r.result = "ok"
            THEN EmbedBatches(texts, net, i + EMBEDDING_BATCH_SIZE, results \o r.vectors)
            ELSE [result |-> r.result, vectors |-> <<>>]

embedAll(texts, net) == EmbedBatches(texts, net, 0, <<>>)

\* ------------------------------------------------------------------------
\* db.js: insertChunks.  `plan` names the statement that fails, if any:
\* the chunk-record write or the vector write of chunk plan.at, or the
\* keyword writes of the chunks in plan.fts.
\* ------------------------------------------------------------------------
NoFailure == [kind |-> "none", at |-> 0, fts |-> {}]
InsertPlans(n) ==
    {NoFailure}
    \cup {[kind |-> "chunk", at |-> i, fts |-> {}] : i \in 1..n}
    \cup {[kind |-> "vec", at |-> i, fts |-> {}] : i \in 1..n}
    \cup {[kind |-> "fts", at |-> 0, fts |-> S] : S \in (SUBSET (1..n)) \ {{}}}

\* The loop of the transaction from chunk i on; t holds the three tables.
RECURSIVE InsertLoop(_, _, _, _, _, _, _)
InsertLoop(t, cs, embs, indexedRelease, vecOn, plan, i) ==
    IF i > Len(cs) THEN [t EXCEPT !.result = "commit"]
    ELSE
      LET c == cs[i]
          withChunk == InsertOrReplace(t.chunks, ChunkRow(c, indexedRelease))
          withFts == IF i \in plan.fts THEN t.fts
                     ELSE Append(t.fts, FtsRow(c, indexedRelease))
          doVec == vecOn /\ i <= Len(embs)
          withVec == IF doVec THEN InsertOrReplace(t.vec, VecRow(c, embs[i])) ELSE t.vec
      IN IF plan.kind = "chunk" /\ plan.at = i THEN [t EXCEPT !.result = "chunk"]
         ELSE IF doVec /\ plan.kind = "vec" /\ plan.at = i THEN [t EXCEPT !.result = "vec"]
         ELSE InsertLoop([t EXCEPT !.chunks = withChunk, !.fts = withFts, !.vec = withVec],
                         cs, embs, indexedRelease, vecOn, plan, i + 1)

\* BEGIN ... COMMIT, or ROLLBACK and rethrow: the tables after the call and
\* how it ended ("commit", or the write that threw).
insertChunks(cs, embs, indexedRelease, vecOn, plan) ==
    LET t0 == [chunks |-> chunks, fts |-> chunks_fts, vec |-> chunks_vec, result |-> "begin"]
        t == InsertLoop(t0, cs, embs, indexedRelease, vecOn, plan, 1)
    IN IF t.result = "commit" THEN t ELSE [t0 EXCEPT !.result = t.result]

\* ------------------------------------------------------------------------
\* db.js: searches.  A raw query is a sequence of pieces, each a word or a
\* run of other characters; tbl/fts/vec are the tables the reader sees.
\* ------------------------------------------------------------------------
NonWords == {"?", "\""}
NoFilter == "null"

\* raw.match(/[A-Za-z0-9_]+/g), quoted and joined with OR; null when no token.
buildFtsQuery(raw) == SelectSeq(raw, LAMBDA s : s \notin NonWords)

\* The tokens FTS5 indexes for a text: the words of its lines and, when the
\* text carries the file header, the segments of the path.
TokensOf(text) ==
    {text.lines[i].tok : i \in 1..Len(text.lines)}
    \cup (IF text.from > 0
          THEN {text.path.dirs[i] : i \in 1..Len(text.path.dirs)}
               \cup {text.path.name[i] : i \in 1..Len(text.path.name)}
          ELSE {})

Matched(ftsQuery, text) == {ftsQuery[i] : i \in 1..Len(ftsQuery)} \cap TokensOf(text)

\* bm25: more negative is better; a row matching more of the query's tokens
\* ranks before one matching fewer.
Bm25Rank(ftsQuery, text) == 0 - Cardinality(Matched(ftsQuery, text))

\* A score is the fraction num/den.
Frac(n, d) == [num |-> n, den |-> d]
FracLess(a, b) == a.num * b.den < b.num * a.den
\* A sum that drops its second term.
FracAddFirst(a, b) == a
FracAdd(a, b) == Frac(a.num * b.den + b.num * a.den, a.den * b.den)
Abs(x) == IF x < 0 THEN 0 - x ELSE x

bm25RankToScore(rank) == Frac(1, 1 + Abs(rank))

\* An insertion that puts x before the elements of equal key.
RECURSIVE InsertSortedUnstable(_, _)
InsertSortedUnstable(sorted, x) ==
    IF sorted = <<>> THEN <<x>>
    ELSE IF ~FracLess(Head(sorted).key, x.key) THEN <<x>> \o sorted
    ELSE <<Head(sorted)>> \o InsertSortedUnstable(Tail(sorted), x)

\* Stable insertion of x into a sequence sorted by ascending key.
RECURSIVE InsertSorted(_, _)
InsertSorted(sorted, x) ==
    IF sorted = <<>> THEN <<x>>
    ELSE IF FracLess(x.key, Head(sorted).key) THEN <<x>> \o sorted
    ELSE <<Head(sorted)>> \o InsertSorted(Tail(sorted), x)

\* A stable sort by ascending key: elements of equal key keep their order.
RECURSIVE SortByKey(_)
SortByKey(seq) ==
    IF seq = <<>> THEN <<>>
    ELSE InsertSorted(SortByKey(SubSeq(seq, 1, Len(seq) - 1)), seq[Len(seq)])

Take(seq, n) == SubSeq(seq, 1, Min(n, Len(seq)))

ChunkById(tbl, id) == {r \in tbl : r.id = id}
NoLine == 0

\* searchFTS, lines 367-432.
searchFTS(tbl, fts, query, limit, sourceFilter, contentTypeFilter) ==
    LET ftsQuery == buildFtsQuery(query)
        candidateLimit == limit * 3
        where == SelectSeq(fts, LAMBDA r :
                    /\ Matched(ftsQuery, r.text) # {}
                    /\ sourceFilter # NoFilter => r.source = sourceFilter
                    /\ contentTypeFilter # NoFilter => r.content_type = contentTypeFilter)
        ranked == [i \in 1..Len(where) |->
                      [row |-> where[i], rank |-> Bm25Rank(ftsQuery, where[i].text),
                       key |-> Frac(Bm25Rank(ftsQuery, where[i].text), 1)]]
        rows == Take(SortByKey(ranked), candidateLimit)
        result(r) ==
            LET found == ChunkById(tbl, r.row.id)
                chunk == CHOOSE c \in found : TRUE
            IN [id |-> r.row.id,
                path |-> IF found # {} THEN chunk.path ELSE r.row.path,
                source |-> IF found # {} THEN chunk.source ELSE r.row.source,
                contentType |-> IF found # {} THEN chunk.content_type ELSE r.row.content_type,
                startLine |-> IF found # {} THEN chunk.start_line ELSE NoLine,
                endLine |-> IF found # {} THEN chunk.end_line ELSE NoLine,
                score |-> bm25RankToScore(r.rank)]
    IN IF ftsQuery = <<>> THEN <<>>
       ELSE Take([i \in 1..Len(rows) |-> result(rows[i])], limit)

\* The distance of a stored vector from the query vector.
Distance(a, b) == IF a = b THEN 0 ELSE 1

\* The loop of searchVector over the nearest rows, lines 333-354.
RECURSIVE VectorLoop(_, _, _, _, _, _)
VectorLoop(tbl, rows, limit, sourceFilter, contentTypeFilter, results) ==
    IF rows = <<>> \/ Len(results) >= limit THEN results
    ELSE LET row == Head(rows)
             found == ChunkById(tbl, row.id)
             chunk == CHOOSE c \in found : TRUE
             keep == /\ found # {}
                     /\ sourceFilter # NoFilter => chunk.source = sourceFilter
                     /\ contentTypeFilter # NoFilter => chunk.content_type = contentTypeFilter
             r == [id |-> chunk.id, path |-> chunk.path, source |-> chunk.source,
                   contentType |-> chunk.content_type,
                   startLine |-> chunk.start_line, endLine |-> chunk.end_line,
                   score |-> Frac(1 - row.distance, 1)]
         IN VectorLoop(tbl, Tail(rows), limit, sourceFilter, contentTypeFilter,
                       IF keep THEN Append(results, r) ELSE results)

\* searchVector, lines 319-357; vecOn is vecLoaded of the reading process.
searchVector(tbl, vec, vecOn, queryEmbedding, limit, sourceFilter, contentTypeFilter) ==
    LET candidateLimit == limit * 3
        all == SetToSeq(vec)
        dist == [i \in 1..Len(all) |->
                    [id |-> all[i].id,
                     distance |-> Distance(all[i].embedding, queryEmbedding),
                     key |-> Frac(Distance(all[i].embedding, queryEmbedding), 1)]]
        rows == Take(SortByKey(dist), candidateLimit)
    IN IF ~vecOn THEN <<>>
       ELSE VectorLoop(tbl, rows, limit, sourceFilter, contentTypeFilter, <<>>)

\* results.forEach((r, idx) => ranks.set(r.id, idx + 1)): the last position wins.
RankOf(results, id) ==
    LET at == {i \in 1..Len(results) : results[i].id = id}
    IN IF at = {} THEN 0 ELSE CHOOSE i \in at : \A j \in at : j <= i

\* A merge that takes no result.
MergedKeysNone(results, keys) == keys
\* The keys of `merged` in insertion order: the ids of the vector results,
\* then those of the keyword results not yet present.
RECURSIVE MergedKeys(_, _)
MergedKeys(results, keys) ==
    IF results = <<>> THEN keys
    ELSE MergedKeys(Tail(results),
                    IF \E i \in 1..Len(keys) : keys[i] = Head(results).id
                    THEN keys ELSE Append(keys, Head(results).id))

\* The entry merged holds for an id: the last vector result of that id, or
\* else the first keyword result of that id.
MergedEntry(vecResults, ftsResults, id) ==
    IF RankOf(vecResults, id) # 0 THEN vecResults[RankOf(vecResults, id)]
    ELSE ftsResults[CHOOSE i \in 1..Len(ftsResults) :
                        /\ ftsResults[i].id = id
                        /\ \A j \in 1..(i - 1) : ftsResults[j].id # id]

\* A component that is always 0.
RrfComponentZero(rank) == Frac(0, 1)
\* `r.vectorRank ? 1 / (RRF_K + r.vectorRank) : 0`; rank 0 stands for null.
RrfComponent(rank) == IF rank # 0 THEN Frac(1, RRF_K + rank) ELSE Frac(0, 1)
\* A fused score that ignores the keyword rank.
RrfScoreVectorOnly(vectorRank, textRank) == RrfComponent(vectorRank)
\* rrfScore = vectorComponent + textComponent, lines 486-489.
RrfScore(vectorRank, textRank) == FracAdd(RrfComponent(vectorRank), RrfComponent(textRank))

\* hybridSearch, lines 443-510.
hybridSearch(tbl, fts, vec, vecOn, queryEmbedding, queryText, limit, sourceFilter, contentTypeFilter) ==
    LET vecResults == searchVector(tbl, vec, vecOn, queryEmbedding, limit * 2,
                                   sourceFilter, contentTypeFilter)
        ftsResults == searchFTS(tbl, fts, queryText, limit * 2, sourceFilter, contentTypeFilter)
        keys == MergedKeys(vecResults \o ftsResults, <<>>)
        rrfScore(id) == RrfScore(RankOf(vecResults, id), RankOf(ftsResults, id))
        \* results.sort((a, b) => b.score - a.score): descending score
        results == [i \in 1..Len(keys) |->
                      [val |-> [MergedEntry(vecResults, ftsResults, keys[i]) EXCEPT
                                   !.score = rrfScore(keys[i])],
                       key |-> Frac(0 - rrfScore(keys[i]).num, rrfScore(keys[i]).den)]]
        sorted == SortByKey(results)
    IN Take([i \in 1..Len(sorted) |-> sorted[i].val], limit)

IdsOf(results) == [i \in 1..Len(results) |-> results[i].id]

\* The characters of a tag that differ between tags, in the order of their
\* codes; a tag <<"1", "2">> stands for the text v2026.2.12.
DigitOrder == <<"0", "1", "2", "3", "4", "5", "6", "7", "8", "9">>
CharCode(c) == CHOOSE i \in 1..Len(DigitOrder) : DigitOrder[i] = c
\* SQLite's comparison of two TEXT values (BINARY collation).
RECURSIVE TextLess(_, _)
TextLess(a, b) ==
    IF b = <<>> THEN FALSE
    ELSE IF a = <<>> THEN TRUE
    ELSE IF Head(a) # Head(b) THEN CharCode(Head(a)) < CharCode(Head(b))
    ELSE TextLess(Tail(a), Tail(b))
TextGeq(a, b) == ~TextLess(a, b)
\* The paths of the chunk table in the order of their texts: docs/a.md,
\* releases/v2026.2.12, releases/v2026.2.9, skills/x/handler.ts.
PathTextOrder == <<PathDoc, Path(<<"releases">>, V12), Path(<<"releases">>, V9), PathHandler>>
PathCode(p) == CHOOSE i \in 1..Len(PathTextOrder) : PathTextOrder[i] = p
\* ORDER BY indexed_release DESC, path ASC: does row a come before row b?
SinceBefore(a, b) ==
    \/ TextLess(b.indexed_release, a.indexed_release)
    \/ /\ a.indexed_release = b.indexed_release
       /\ PathCode(a.path) < PathCode(b.path)
RECURSIVE SinceInsert(_, _)
SinceInsert(sorted, x) ==
    IF sorted = <<>> THEN <<x>>
    ELSE IF SinceBefore(x, Head(sorted)) THEN <<x>> \o sorted
    ELSE <<Head(sorted)>> \o SinceInsert(Tail(sorted), x)
RECURSIVE SinceSort(_)
SinceSort(seq) ==
    IF seq = <<>> THEN <<>>
    ELSE SinceInsert(SinceSort(SubSeq(seq, 1, Len(seq) - 1)), seq[Len(seq)])
\* getChunksSinceRelease, lines 528-550; a NULL indexed_release (NoRelease)
\* satisfies no comparison.
getChunksSinceRelease(tbl, sinceRelease, limit) ==
    Take(SinceSort(SetToSeq({r \in tbl : /\ r.indexed_release # NoRelease
                                         /\ TextGeq(r.indexed_release, sinceRelease)})),
         limit)

\* ------------------------------------------------------------------------
\* index.js: main()
\* ------------------------------------------------------------------------
readFileSync(relPath) == FileVersions[tree[relPath]]

discoverFiles(source) ==
    SelectSeq(PathOrder, LAMBDA p : tree[p] # Absent /\ matchSource(p, source))

CurrentSource == SOURCES[srcIdx]
CurrentFiles == discoverFiles(CurrentSource)
CurrentPath == CurrentFiles[fileIdx]

PathsOf(cs) == {cs[i].path : i \in 1..Len(cs)}
TextsOf(cs) == [i \in 1..Len(cs) |-> cs[i].text]

\* A hash check that never skips.
ShouldSkipNever(forceFlag, existingHash, fileHash) == FALSE

\* `!flags.force && existingHash === fileHash`
ShouldSkip(forceFlag, existingHash, fileHash) == ~forceFlag /\ existingHash = fileHash

NoDelete == [path |-> PathDoc, all |-> <<>>, ids |-> <<>>, ret |-> "none"]
\* The locals of deleteChunksByPath(path) after its SELECT, called from `ret`.
StartDelete(path, ids, ret) ==
    [path |-> path, all |-> SetToSeq(ids), ids |-> SetToSeq(ids), ret |-> ret]
ZeroTotals == [new |-> 0, updated |-> 0, skipped |-> 0, deleted |-> 0]
NoQuery == [kind |-> "none"]

\* What is recorded of a run while it lasts, and of the runs so far.
NoRun(runs, faults, vecAlways, owed, prev) ==
    [runs |-> runs, faults |-> faults, vecAlways |-> vecAlways, owed |-> owed,
     prev |-> prev, faultsBefore |-> faults,
     outcome |-> "none", failedPaths |-> {},
     snapFiles |-> << >>, snapChunks |-> {}, snapFts |-> <<>>, snapVec |-> {},
     visited |-> {}, skips |-> {}, chunked |-> {}, embedded |-> {},
     deleted |-> {}, inserted |-> {}, sweepDone |-> FALSE]

Init ==
    /\ tree \in Trees
    /\ head = V9
    /\ releases = {}
    /\ files = << >>
    /\ chunks = {}
    /\ chunks_fts = <<>>
    /\ chunks_vec = {}
    /\ pc = "idle"
    /\ force = FALSE
    /\ currentRelease = NoRelease
    /\ vecLoaded = FALSE
    /\ srcIdx = 0
    /\ fileIdx = 0
    /\ chunksToEmbed = <<>>
    /\ embeddings = <<>>
    /\ allDiscoveredPaths = {}
    /\ totals = ZeroTotals
    /\ del = NoDelete
    /\ sweepPaths = <<>>
    /\ relPending = <<>>
    /\ hist = NoRun(0, 0, TRUE, {}, "none")
    /\ qres = NoQuery

\* The upstream checkout changes between runs: a file is added, edited or removed.
ChangeTree(p, v) ==
    /\ pc = "idle"
    /\ hist.runs < MaxRuns
    /\ v \in {Absent} \cup VersionsOf(p)
    /\ tree[p] # v
    /\ tree' = [tree EXCEPT ![p] = v]
    /\ hist' = [hist EXCEPT !.owed = {}]
    /\ qres' = NoQuery
    /\ UNCHANGED <<head, releases, dbVars, procVars>>

\* sync-latest-tag.sh, lines 95-148: the latest tag is checked out and its
\* metadata stored with insertRelease.
InsertRelease(tag) ==
    /\ pc = "idle"
    /\ hist.runs < MaxRuns
    /\ head = V9
    /\ tag = V12
    /\ head' = tag
    /\ releases' = releases \cup {tag}
    /\ qres' = NoQuery
    /\ UNCHANGED <<tree, dbVars, procVars, hist>>

\* main() up to the loop over SOURCES: openDb and the release tag.
StartRun(f, vec) ==
    /\ pc = "idle"
    /\ hist.runs < MaxRuns
    /\ pc' = "file"
    /\ force' = f
    /\ vecLoaded' = vec
    /\ currentRelease' = head
    /\ srcIdx' = 1
    /\ fileIdx' = 1
    /\ hist' = [hist EXCEPT !.runs = @ + 1, !.outcome = "running",
                            !.snapFiles = files, !.snapChunks = chunks,
                            !.snapFts = chunks_fts, !.snapVec = chunks_vec,
                            !.vecAlways = @ /\ vec]
    /\ qres' = NoQuery
    /\ UNCHANGED <<envVars, dbVars, chunksToEmbed, embeddings, allDiscoveredPaths,
                   totals, del, sweepPaths, relPending>>

\* An exception reaches main().catch: the run is over, process.exit(1) follows.
Fatal(result) ==
    /\ pc' = "fatal"
    /\ hist' = [hist EXCEPT !.outcome = result,
                            !.faults = @ + 1,
                            !.failedPaths = PathsOf(chunksToEmbed),
                            !.embedded = @ \cup PathsOf(chunksToEmbed),
                            !.owed = @ \cup (PathsOf(chunksToEmbed) \cap Paths)]
    /\ UNCHANGED <<force, currentRelease, vecLoaded, srcIdx, fileIdx, chunksToEmbed,
                   embeddings, allDiscoveredPaths, totals, del, sweepPaths, relPending>>

\* The process is gone: at the end of main() or by process.exit(1).
ProcessEnds ==
    /\ pc' = "idle"
    /\ force' = FALSE
    /\ currentRelease' = NoRelease
    /\ vecLoaded' = FALSE
    /\ srcIdx' = 0
    /\ fileIdx' = 0
    /\ chunksToEmbed' = <<>>
    /\ embeddings' = <<>>
    /\ allDiscoveredPaths' = {}
    /\ totals' = ZeroTotals
    /\ del' = NoDelete
    /\ sweepPaths' = <<>>
    /\ relPending' = <<>>
    /\ hist' = NoRun(hist.runs, hist.faults, hist.vecAlways, hist.owed,
                     IF pc = "fatal" THEN "failed" ELSE IF force THEN "forced" ELSE "ok")

\* Lines 365-368: process.exit(1).
Exit ==
    /\ pc = "fatal"
    /\ ProcessEnds
    /\ UNCHANGED <<envVars, dbVars, qres>>

\* Lines 100-118 for one file: hash check, skip, or start of the update.
ProcessFile ==
    /\ pc = "file"
    /\ srcIdx <= Len(SOURCES)
    /\ fileIdx <= Len(CurrentFiles)
    /\ LET relPath == CurrentPath
           fileHash == sha256(readFileSync(relPath))
           existingHash == getFileHash(relPath)
           ids == ChunkIdsOf(chunks, relPath)
           seen == [hist EXCEPT !.visited = @ \cup {<<CurrentSource, relPath>>}]
       IN /\ allDiscoveredPaths' = allDiscoveredPaths \cup {relPath}
          /\ IF ShouldSkip(force, existingHash, fileHash)
             THEN /\ totals' = [totals EXCEPT !.skipped = @ + 1]
                  /\ fileIdx' = fileIdx + 1
                  /\ hist' = [seen EXCEPT !.skips = @ \cup {<<CurrentSource, relPath>>}]
                  /\ UNCHANGED <<pc, del, chunks>>
             ELSE IF existingHash # NoHash
             THEN /\ totals' = [totals EXCEPT !.updated = @ + 1]
                  /\ IF ids = {}
                     THEN /\ pc' = "upsert"
                          /\ hist' = seen
                          /\ UNCHANGED <<del, chunks>>
                     ELSE /\ chunks' = DeleteChunkRows(chunks, relPath)
                          /\ del' = StartDelete(relPath, ids, "upsert")
                          /\ pc' = "delFts"
                          /\ hist' = [seen EXCEPT !.deleted = @ \cup {relPath}]
                  /\ UNCHANGED fileIdx
             ELSE /\ totals' = [totals EXCEPT !.new = @ + 1]
                  /\ pc' = "upsert"
                  /\ hist' = seen
                  /\ UNCHANGED <<fileIdx, del, chunks>>
    /\ UNCHANGED <<envVars, files, chunks_fts, chunks_vec, force, currentRelease,
                   vecLoaded, srcIdx, chunksToEmbed, embeddings, sweepPaths,
                   relPending, qres>>

\* deleteChunksByPath, lines 241-245: one DELETE FROM chunks_fts; a failure
\* of the statement is caught and ignored.
DeleteFts(fails) ==
    /\ pc = "delFts"
    /\ del.ids # <<>>
    /\ fails => hist.faults < MaxFaults
    /\ chunks_fts' = IF fails THEN chunks_fts ELSE DeleteFtsRows(chunks_fts, Head(del.ids))
    /\ hist' = [hist EXCEPT !.faults = IF fails THEN @ + 1 ELSE @]
    /\ IF Len(del.ids) > 1
       THEN /\ del' = [del EXCEPT !.ids = Tail(@)]
            /\ UNCHANGED pc
       ELSE IF vecLoaded
            THEN /\ del' = [del EXCEPT !.ids = del.all]
                 /\ pc' = "delVec"
            ELSE /\ del' = NoDelete
                 /\ pc' = del.ret
    /\ UNCHANGED <<envVars, files, chunks, chunks_vec, force, currentRelease, vecLoaded,
                   srcIdx, fileIdx, chunksToEmbed, embeddings, allDiscoveredPaths,
                   totals, sweepPaths, relPending, qres>>

\* deleteChunksByPath, lines 248-254: one DELETE FROM chunks_vec; a failure
\* of the statement is caught and ignored.
DeleteVec(fails) ==
    /\ pc = "delVec"
    /\ del.ids # <<>>
    /\ fails => hist.faults < MaxFaults
    /\ chunks_vec' = IF fails THEN chunks_vec ELSE DeleteVecRows(chunks_vec, Head(del.ids))
    /\ hist' = [hist EXCEPT !.faults = IF fails THEN @ + 1 ELSE @]
    /\ IF Len(del.ids) > 1
       THEN /\ del' = [del EXCEPT !.ids = Tail(@)]
            /\ UNCHANGED pc
       ELSE /\ del' = NoDelete
            /\ pc' = del.ret
    /\ UNCHANGED <<envVars, files, chunks, chunks_fts, force, currentRelease, vecLoaded,
                   srcIdx, fileIdx, chunksToEmbed, embeddings, allDiscoveredPaths,
                   totals, sweepPaths, relPending, qres>>

\* Lines 120-126: chunk the file, queue its chunks, record its new hash.
UpsertFile ==
    /\ pc = "upsert"
    /\ LET relPath == CurrentPath
           content == readFileSync(relPath)
           cs == chunkFile(content, relPath, CurrentSource)
       IN /\ chunksToEmbed' = chunksToEmbed \o cs
          /\ files' = upsertFile(files, relPath, CurrentSource, sha256(content), currentRelease)
          /\ hist' = [hist EXCEPT !.chunked = @ \cup {relPath}]
    /\ fileIdx' = fileIdx + 1
    /\ pc' = "file"
    /\ UNCHANGED <<envVars, chunks, chunks_fts, chunks_vec, force, currentRelease,
                   vecLoaded, srcIdx, embeddings, allDiscoveredPaths, totals, del,
                   sweepPaths, relPending, qres>>

\* The end of one iteration of the loop over SOURCES: the next source, or
\* line 156 (indexedPaths = getAllFilePaths()) after the last one.
NextSource ==
    /\ srcIdx' = srcIdx + 1
    /\ fileIdx' = 1
    /\ chunksToEmbed' = <<>>
    /\ embeddings' = <<>>
    /\ IF srcIdx < Len(SOURCES)
       THEN pc' = "file" /\ UNCHANGED sweepPaths
       ELSE pc' = "sweep" /\ sweepPaths' = getAllFilePaths(files)

\* Lines 129-132: nothing to embed for this source.
NoChanges ==
    /\ pc = "file"
    /\ srcIdx <= Len(SOURCES)
    /\ fileIdx > Len(CurrentFiles)
    /\ chunksToEmbed = <<>>
    /\ NextSource
    /\ UNCHANGED <<envVars, dbVars, force, currentRelease, vecLoaded,
                   allDiscoveredPaths, totals, del, relPending, hist, qres>>

\* Lines 134-138: embedAll over the chunks of the source's changed files.
Embed(net) ==
    /\ pc = "file"
    /\ srcIdx <= Len(SOURCES)
    /\ fileIdx > Len(CurrentFiles)
    /\ chunksToEmbed # <<>>
    /\ LET r == embedAll(TextsOf(chunksToEmbed), net)
       IN IF r.result = "ok"
          THEN /\ embeddings' = r.vectors
               /\ pc' = "insert"
               /\ hist' = [hist EXCEPT !.embedded = @ \cup PathsOf(chunksToEmbed)]
               /\ UNCHANGED <<force, currentRelease, vecLoaded, srcIdx, fileIdx,
                              chunksToEmbed, allDiscoveredPaths, totals, del,
                              sweepPaths, relPending>>
          ELSE /\ hist.faults < MaxFaults
               /\ Fatal("embed")
    /\ UNCHANGED <<envVars, dbVars, qres>>

\* Line 141: insertChunks(chunkMetadata, embeddings, currentRelease).
Insert(plan) ==
    /\ pc = "insert"
    /\ plan.kind # "none" => hist.faults < MaxFaults
    /\ LET t == insertChunks(chunksToEmbed, embeddings, currentRelease, vecLoaded, plan)
       IN /\ chunks' = t.chunks
          /\ chunks_fts' = t.fts
          /\ chunks_vec' = t.vec
          /\ IF t.result = "commit"
             THEN /\ NextSource
                  /\ hist' = [hist EXCEPT !.inserted = @ \cup PathsOf(chunksToEmbed),
                                          !.faults = IF plan.kind = "none" THEN @ ELSE @ + 1]
                  /\ UNCHANGED <<force, currentRelease, vecLoaded, allDiscoveredPaths,
                                 totals, del, relPending>>
             ELSE Fatal(t.result)
    /\ UNCHANGED <<envVars, files, qres>>

\* Lines 157-159: the next indexed path; a path not discovered in this run
\* has its chunks deleted (deleteChunksByPath, up to DELETE FROM chunks).
SweepVisit ==
    /\ pc = "sweep"
    /\ sweepPaths # <<>>
    /\ LET path == Head(sweepPaths)
           ids == ChunkIdsOf(chunks, path)
       IN IF path \in allDiscoveredPaths
          THEN /\ sweepPaths' = Tail(sweepPaths)
               /\ UNCHANGED <<pc, del, chunks, hist>>
          ELSE IF ids = {}
          THEN /\ pc' = "sweepFile"
               /\ UNCHANGED <<sweepPaths, del, chunks, hist>>
          ELSE /\ chunks' = DeleteChunkRows(chunks, path)
               /\ del' = StartDelete(path, ids, "sweepFile")
               /\ pc' = "delFts"
               /\ hist' = [hist EXCEPT !.deleted = @ \cup {path}]
               /\ UNCHANGED sweepPaths
    /\ UNCHANGED <<envVars, files, chunks_fts, chunks_vec, force, currentRelease,
                   vecLoaded, srcIdx, fileIdx, chunksToEmbed, embeddings,
                   allDiscoveredPaths, totals, relPending, qres>>

\* Lines 160-161: deleteFile(path); totalDeleted++.
SweepFile ==
    /\ pc = "sweepFile"
    /\ files' = deleteFile(files, Head(sweepPaths))
    /\ totals' = [totals EXCEPT !.deleted = @ + 1]
    /\ sweepPaths' = Tail(sweepPaths)
    /\ pc' = "sweep"
    /\ UNCHANGED <<envVars, chunks, chunks_fts, chunks_vec, force, currentRelease,
                   vecLoaded, srcIdx, fileIdx, chunksToEmbed, embeddings,
                   allDiscoveredPaths, del, relPending, hist, qres>>

\* ------------------------------------------------------------------------
\* index.js: indexReleaseChangelogs()
\* ------------------------------------------------------------------------
ReleasePath(tag) == Path(<<"releases">>, tag)

\* The markdown of a release (a heading naming the tag and its sections);
\* from = to = 0: the text carries no file header.
formatChangelogMarkdown(tag) ==
    [path |-> ReleasePath(tag), from |-> 0, to |-> 0,
     lines |-> <<Line(40, "heading", "release")>>]

\* Lines 216-230: the chunk of a release; its id is the string releases/<tag>.
ReleaseChunk(tag) ==
    [id |-> <<<<"releases", ChunkText(<<>>, 0, 0, ReleasePath(tag))>>, 0>>,
     path |-> ReleasePath(tag),
     source |-> "releases",
     startLine |-> 1,
     endLine |-> 1,
     text |-> formatChangelogMarkdown(tag),
     contentType |-> "docs",
     language |-> "markdown",
     category |-> "release-notes"]

\* Lines 191-196: the releases with no chunk of path releases/<tag>, newest first.
ReleasesWithoutChunks ==
    SelectSeq(ReleaseOrder,
              LAMBDA tag : tag \in releases /\ ChunkIdsOf(chunks, ReleasePath(tag)) = {})

\* The clean-up loop is over: line 166 calls indexReleaseChangelogs.
EndSweep ==
    /\ pc = "sweep"
    /\ sweepPaths = <<>>
    /\ relPending' = ReleasesWithoutChunks
    /\ pc' = IF ReleasesWithoutChunks = <<>> THEN "summary" ELSE "relUpsert"
    /\ chunksToEmbed' = <<>>
    /\ embeddings' = <<>>
    /\ hist' = [hist EXCEPT !.sweepDone = TRUE,
                            !.outcome = IF ReleasesWithoutChunks = <<>> THEN "ok" ELSE @]
    /\ UNCHANGED <<envVars, dbVars, force, currentRelease, vecLoaded, srcIdx, fileIdx,
                   allDiscoveredPaths, totals, del, sweepPaths, qres>>

\* Lines 208-237 for one release: its chunk is queued and its path recorded.
ReleaseUpsert ==
    /\ pc = "relUpsert"
    /\ relPending # <<>>
    /\ LET chunk == ReleaseChunk(Head(relPending))
       IN /\ chunksToEmbed' = Append(chunksToEmbed, chunk)
          /\ files' = upsertFile(files, chunk.path, "releases", sha256(chunk.text), NoRelease)
          /\ hist' = [hist EXCEPT !.chunked = @ \cup {chunk.path}]
    /\ relPending' = Tail(relPending)
    /\ UNCHANGED <<envVars, chunks, chunks_fts, chunks_vec, pc, force, currentRelease,
                   vecLoaded, srcIdx, fileIdx, embeddings, allDiscoveredPaths, totals,
                   del, sweepPaths, qres>>

\* Lines 239-244: embedAll over the changelog chunks.
ReleaseEmbed(net) ==
    /\ pc = "relUpsert"
    /\ relPending = <<>>
    /\ LET r == embedAll(TextsOf(chunksToEmbed), net)
       IN IF r.result = "ok"
          THEN /\ embeddings' = r.vectors
               /\ pc' = "relInsert"
               /\ hist' = [hist EXCEPT !.embedded = @ \cup PathsOf(chunksToEmbed)]
               /\ UNCHANGED <<force, currentRelease, vecLoaded, srcIdx, fileIdx,
                              chunksToEmbed, allDiscoveredPaths, totals, del,
                              sweepPaths, relPending>>
          ELSE /\ hist.faults < MaxFaults
               /\ Fatal("embed")
    /\ UNCHANGED <<envVars, dbVars, qres>>

\* Line 246: insertChunks(chunkMetadata, embeddings, currentRelease).
ReleaseInsert(plan) ==
    /\ pc = "relInsert"
    /\ plan.kind # "none" => hist.faults < MaxFaults
    /\ LET t == insertChunks(chunksToEmbed, embeddings, currentRelease, vecLoaded, plan)
       IN /\ chunks' = t.chunks
          /\ chunks_fts' = t.fts
          /\ chunks_vec' = t.vec
          /\ IF t.result = "commit"
             THEN /\ pc' = "summary"
                  /\ chunksToEmbed' = <<>>
                  /\ embeddings' = <<>>
                  /\ hist' = [hist EXCEPT !.inserted = @ \cup PathsOf(chunksToEmbed),
                                          !.outcome = "ok",
                                          !.faults = IF plan.kind = "none" THEN @ ELSE @ + 1]
                  /\ UNCHANGED <<force, currentRelease, vecLoaded, srcIdx, fileIdx,
                                 allDiscoveredPaths, totals, del, sweepPaths, relPending>>
             ELSE Fatal(t.result)
    /\ UNCHANGED <<envVars, files, qres>>

\* Lines 168-180: the summary and closeDb(); the run is complete.
Finish ==
    /\ pc = "summary"
    /\ ProcessEnds
    /\ UNCHANGED <<envVars, dbVars, qres>>

\* ------------------------------------------------------------------------
\* query.js: a query of another process against the committed store
\* ------------------------------------------------------------------------
Queries == {<<"?">>, <<"alpha">>, <<"gamma", "?", "release">>}
SourceFilters == {NoFilter, "docs"}
ContentTypeFilters == {NoFilter, "code"}

\* embedQuery(text): the vector of the query text.
embedQuery(raw) == IF buildFtsQuery(raw) = <<>> THEN 3 ELSE TokAxis(buildFtsQuery(raw)[1])

\* The answers of hybridSearch and of searchFTS to one query; vec is
\* vecLoaded of the querying process.  qres holds the answers to the last
\* query until the next step of the indexer or of its environment.
Query(raw, limit, sourceFilter, contentTypeFilter, vec) ==
    /\ pc = "idle"
    /\ qres = NoQuery
    /\ qres' = [kind |-> "query", vec |-> vec, limit |-> limit, raw |-> raw,
                sourceFilter |-> sourceFilter, contentTypeFilter |-> contentTypeFilter,
                vecResults |-> searchVector(chunks, chunks_vec, vec, embedQuery(raw),
                                            limit * 2, sourceFilter, contentTypeFilter),
                ftsResults |-> searchFTS(chunks, chunks_fts, raw, limit * 2, sourceFilter,
                                         contentTypeFilter),
                hybrid |-> hybridSearch(chunks, chunks_fts, chunks_vec, vec, embedQuery(raw),
                                        raw, limit, sourceFilter, contentTypeFilter),
                fts |-> searchFTS(chunks, chunks_fts, raw, limit, sourceFilter,
                                  contentTypeFilter)]
    /\ UNCHANGED <<envVars, dbVars, procVars, hist>>

\* query.js, lines 88-90: --since-release <tag> [--top <limit>].
Since(tag, limit) ==
    /\ pc = "idle"
    /\ qres = NoQuery
    /\ qres' = [kind |-> "since", tag |-> tag, limit |-> limit,
                rows |-> getChunksSinceRelease(chunks, tag, limit)]
    /\ UNCHANGED <<envVars, dbVars, procVars, hist>>

Plans == IF vecLoaded THEN InsertPlans(Len(chunksToEmbed))
         ELSE {p \in InsertPlans(Len(chunksToEmbed)) : p.kind # "vec"}

Next ==
    \/ \E p \in Paths, v \in {Absent} \cup Versions : ChangeTree(p, v)
    \/ \E tag \in Tags : InsertRelease(tag)
    \/ \E f \in BOOLEAN, vec \in BOOLEAN : StartRun(f, vec)
    \/ ProcessFile
    \/ \E fails \in BOOLEAN : DeleteFts(fails)
    \/ \E fails \in BOOLEAN : DeleteVec(fails)
    \/ UpsertFile
    \/ NoChanges
    \/ \E net \in [1..NumBatches(Len(chunksToEmbed)) -> ResponseSeqs] : Embed(net)
    \/ \E plan \in Plans : Insert(plan)
    \/ SweepVisit
    \/ SweepFile
    \/ EndSweep
    \/ ReleaseUpsert
    \/ \E net \in [1..NumBatches(Len(chunksToEmbed)) -> ResponseSeqs] : ReleaseEmbed(net)
    \/ \E plan \in Plans : ReleaseInsert(plan)
    \/ Finish
    \/ Exit
    \/ \E raw \in Queries, limit \in 1..MaxLimit, sf \in SourceFilters,
          cf \in ContentTypeFilters, vec \in BOOLEAN : Query(raw, limit, sf, cf, vec)
    \/ \E tag \in Tags, limit \in 1..MaxLimit : Since(tag, limit)

Spec == Init /\ [][Next]_vars

\* ------------------------------------------------------------------------
\* Searches over the index of a checkout whose skills/x/handler.ts may be the
\* module of MaxHandlerLines declarations: the state after one complete run
\* of the indexer at release v2026.2.9 with the vector backend loaded.
\* ------------------------------------------------------------------------
SearchTrees == {t \in [Paths -> Versions] : t[PathDoc] \in {1, 2} /\ t[PathHandler] \in {1, 3}}

\* main(), lines 96-141, for the paths PathOrder[i..] of checkout t: each file
\* is chunked, its manifest entry written, its chunks embedded and inserted.
RECURSIVE IndexPaths(_, _, _)
IndexPaths(t, st, i) ==
    IF i > Len(PathOrder) THEN st
    ELSE LET relPath == PathOrder[i]
             source == SOURCES[CHOOSE k \in 1..Len(SOURCES) : matchSource(relPath, SOURCES[k])]
             content == FileVersions[t[relPath]]
             cs == chunkFile(content, relPath, source)
             net == [b \in 1..NumBatches(Len(cs)) |-> [a \in 1..(MAX_RETRIES + 1) |-> 200]]
             ins == InsertLoop([chunks |-> st.chunks, fts |-> st.fts, vec |-> st.vec,
                                result |-> "begin"],
                               cs, embedAll(TextsOf(cs), net).vectors, V9, TRUE, NoFailure, 1)
         IN IndexPaths(t, [files |-> upsertFile(st.files, relPath, source, sha256(content), V9),
                           chunks |-> ins.chunks, fts |-> ins.fts, vec |-> ins.vec],
                       i + 1)

IndexOf(t) == IndexPaths(t, [files |-> << >>, chunks |-> {}, fts |-> <<>>, vec |-> {}], 1)

SearchInit ==
    /\ tree \in SearchTrees
    /\ head = V9
    /\ releases = {}
    /\ files = IndexOf(tree).files
    /\ chunks = IndexOf(tree).chunks
    /\ chunks_fts = IndexOf(tree).fts
    /\ chunks_vec = IndexOf(tree).vec
    /\ pc = "idle"
    /\ force = FALSE
    /\ currentRelease = NoRelease
    /\ vecLoaded = FALSE
    /\ srcIdx = 0
    /\ fileIdx = 0
    /\ chunksToEmbed = <<>>
    /\ embeddings = <<>>
    /\ allDiscoveredPaths = {}
    /\ totals = ZeroTotals
    /\ del = NoDelete
    /\ sweepPaths = <<>>
    /\ relPending = <<>>
    /\ hist = NoRun(1, 0, TRUE, {}, "ok")
    /\ qres = NoQuery

SearchNext ==
    \/ \E raw \in Queries, limit \in 1..MaxLimit, sf \in SourceFilters,
          cf \in ContentTypeFilters, vec \in BOOLEAN : Query(raw, limit, sf, cf, vec)

SearchSpec == SearchInit /\ [][SearchNext]_vars

\* ------------------------------------------------------------------------
\* sync-latest-tag.sh: the auto-update timer over an index built at V9
\* ------------------------------------------------------------------------
\* The script runs from the timer while no index.js process is running; its
\* re-index step is the index.js process, which goes on step by step.
SyncInit ==
    /\ SearchInit
    /\ tree[PathHandler] = 1

\* Lines 55-77: CURRENT_TAG equals LATEST_TAG, "Already on latest release",
\* exit 0.
SyncAlready ==
    /\ pc = "idle"
    /\ head = V12
    /\ qres' = [kind |-> "sync", outcome |-> "already"]
    /\ UNCHANGED <<envVars, dbVars, procVars, hist>>

\* Lines 55-105: LATEST_TAG is checked out, no changed file is under a
\* knowledge base prefix, "skipping reindex", exit 0.
SyncSkip ==
    /\ pc = "idle"
    /\ head = V9
    /\ head' = V12
    /\ qres' = [kind |-> "sync", outcome |-> "skipped"]
    /\ UNCHANGED <<tree, releases, dbVars, procVars, hist>>

\* Lines 55-154: LATEST_TAG is checked out with changed knowledge base files
\* (the checkout becomes t), insertRelease records the tag, and
\* `index.js --release LATEST_TAG` starts. Under `set -e` a failing index.js
\* ends the script at line 154; lines 160-164 only log.
SyncReindex(t, vec) ==
    /\ pc = "idle"
    /\ head = V9
    /\ t # tree
    /\ head' = V12
    /\ tree' = t
    /\ releases' = releases \cup {V12}
    /\ pc' = "file"
    /\ force' = FALSE
    /\ vecLoaded' = vec
    /\ currentRelease' = V12
    /\ srcIdx' = 1
    /\ fileIdx' = 1
    /\ hist' = [hist EXCEPT !.runs = @ + 1, !.outcome = "running",
                            !.snapFiles = files, !.snapChunks = chunks,
                            !.snapFts = chunks_fts, !.snapVec = chunks_vec,
                            !.vecAlways = @ /\ vec]
    /\ qres' = [kind |-> "sync", outcome |-> "reindex"]
    /\ UNCHANGED <<dbVars, chunksToEmbed, embeddings, allDiscoveredPaths,
                   totals, del, sweepPaths, relPending>>

SyncNext ==
    \/ SyncAlready
    \/ SyncSkip
    \/ \E t \in Trees, vec \in BOOLEAN : SyncReindex(t, vec)
    \/ ProcessFile
    \/ \E fails \in BOOLEAN : DeleteFts(fails)
    \/ \E fails \in BOOLEAN : DeleteVec(fails)
    \/ UpsertFile
    \/ NoChanges
    \/ \E net \in [1..NumBatches(Len(chunksToEmbed)) -> ResponseSeqs] : Embed(net)
    \/ \E plan \in Plans : Insert(plan)
    \/ SweepVisit
    \/ SweepFile
    \/ EndSweep
    \/ ReleaseUpsert
    \/ \E net \in [1..NumBatches(Len(chunksToEmbed)) -> ResponseSeqs] : ReleaseEmbed(net)
    \/ \E plan \in Plans : ReleaseInsert(plan)
    \/ Finish
    \/ Exit

SyncSpec == SyncInit /\ [][SyncNext]_vars

\* ------------------------------------------------------------------------
\* The functions of the library applied to inputs of their own, from the
\* state of a fresh installation.
\* ------------------------------------------------------------------------
FnInit ==
    /\ Init
    /\ tree = [p \in Paths |-> Absent]

\* hybridSearch, lines 483-490: the fused score of a chunk at vectorRank and
\* textRank of candidate lists of up to 2 * limit entries, and the scores of
\* the chunks found at each rank of one list only.
Score(limit, vectorRank, textRank) ==
    /\ qres = NoQuery
    /\ qres' = [kind |-> "rrf", limit |-> limit,
                vectorRank |-> vectorRank, textRank |-> textRank,
                score |-> RrfScore(vectorRank, textRank),
                vectorOnly |-> [r \in 1..(2 * limit) |-> RrfScore(r, 0)],
                textOnly |-> [r \in 1..(2 * limit) |-> RrfScore(0, r)]]
    /\ UNCHANGED <<envVars, dbVars, procVars, hist>>

\* The lines a file given to chunkFile is made of: the empty line, a short
\* and a long line of prose, a markdown heading longer than a chunk, and a
\* function declaration.
LineChoices ==
    {EmptyLine, Line(150, "text", "alpha"), Line(900, "text", "beta"),
     Line(1700, "heading", "gamma"), Line(250, "function", "alpha")}
LineLists == UNION {[1..n -> LineChoices] : n \in 1..MaxLines}
\* index.js, lines 129-130: chunkFile(content, relPath, source.name) for a
\* file of the given lines found under a source.
ChunkFile(ls, relPath, source) ==
    /\ qres = NoQuery
    /\ matchSource(relPath, source)
    /\ qres' = [kind |-> "chunks", lines |-> ls, content |-> joinLines(ls),
                relPath |-> relPath,
                chunks |-> chunkFile(joinLines(ls), relPath, source)]
    /\ UNCHANGED <<envVars, dbVars, procVars, hist>>

\* ------------------------------------------------------------------------
\* Synonym expander.  A query is a sequence of whitespace-separated words; a
\* word is its lower-case letters (base), whether it is written with a
\* capital (caps) and whether punctuation is attached to it (punct).
\* ------------------------------------------------------------------------
Word(b, c, p) == [base |-> b, caps |-> c, punct |-> p]
\* word.toLowerCase() and word.replace(/[^\w-]/g, '').
toLowerCase(w) == [w EXCEPT !.caps = FALSE]
cleanWord(w) == [w EXCEPT !.punct = FALSE]

\* The entries of SYNONYMS for the words of the modelled queries.
SYNONYMS ==
    [config |-> <<"configuration", "setup", "settings">>,
     bot |-> <<"agent", "assistant">>,
     agent |-> <<"bot", "assistant">>]
\* The properties SYNONYMS, an object literal, inherits from Object.prototype
\* under names a clean word can take.
InheritedKeys == {"constructor", "__proto__"}

\* SYNONYMS[cleanWord]: an array, an inherited value that is truthy and not
\* iterable, or undefined.
SynonymsLookup(w) ==
    IF w.caps \/ w.punct THEN [kind |-> "undefined", items |-> <<>>]
    ELSE IF w.base \in DOMAIN SYNONYMS THEN [kind |-> "array", items |-> SYNONYMS[w.base]]
    ELSE IF w.base \in InheritedKeys THEN [kind |-> "inherited", items |-> <<>>]
    ELSE [kind |-> "undefined", items |-> <<>>]

\* expansions.add(syn) for each syn: a Set keeps insertion order and takes a
\* value once.
RECURSIVE AddAll(_, _)
AddAll(expansions, syns) ==
    IF syns = <<>> THEN expansions
    ELSE AddAll(IF \E i \in 1..Len(expansions) : expansions[i] = Head(syns)
                THEN expansions ELSE Append(expansions, Head(syns)),
                Tail(syns))

\* The loop of expandQuery over words[i..]; `for (const syn of x)` throws a
\* TypeError when x is not iterable.
RECURSIVE ExpandLoop(_, _, _)
ExpandLoop(words, i, expansions) ==
    IF i > Len(words) THEN [result |-> "ok", expansions |-> expansions]
    ELSE LET found == SynonymsLookup(cleanWord(toLowerCase(words[i])))
         IN IF found.kind = "inherited" THEN [result |-> "TypeError", expansions |-> <<>>]
            ELSE ExpandLoop(words, i + 1,
                            IF found.kind = "array" THEN AddAll(expansions, found.items)
                            ELSE expansions)

\* expandQuery, lines 481-499: the synonyms that follow the original query
\* in the returned string (the Set's first element is the query itself, and
\* no synonym is a query of the model).
expandQuery(query) == ExpandLoop(query, 1, <<>>)

WordBases == {"config", "bot", "agent", "search", "constructor"}
Words == {Word(b, c, p) : b \in WordBases, c \in BOOLEAN, p \in BOOLEAN}
ExpandQueries == UNION {[1..n -> Words] : n \in 1..MaxWords}

\* query.js, line 144: expandQuery(query).
ExpandQuery(query) ==
    /\ qres = NoQuery
    /\ qres' = [kind |-> "expand", query |-> query,
                result |-> expandQuery(query).result,
                text |-> [original |-> query, synonyms |-> expandQuery(query).expansions]]
    /\ UNCHANGED <<envVars, dbVars, procVars, hist>>

\* embedder.js, lines 11-14: embedQuery(text) is embedBatch([text]), here with
\* the answers the endpoint gives to its requests.
EmbedBatch(text, responses) ==
    /\ qres = NoQuery
    /\ qres' = [kind |-> "embed", texts |-> <<text>>, responses |-> responses,
                r |-> embedBatch(<<text>>, responses)]
    /\ UNCHANGED <<envVars, dbVars, procVars, hist>>

\* The files whose chunks are given to insertChunks.
InsertInputs == {<<PathDoc, 1>>, <<PathDoc, 2>>, <<PathHandler, 1>>, <<PathHandler, 3>>}
ChunksOfInput(in) ==
    chunkFile(FileVersions[in[2]], in[1],
              SOURCES[CHOOSE k \in 1..Len(SOURCES) : matchSource(in[1], SOURCES[k])])

\* index.js, line 141: insertChunks(chunkMetadata, embeddings, currentRelease)
\* on the empty tables, for the chunks of one file and one failing statement;
\* vecOn is vecLoaded.
InsertChunks(in, vecOn, plan) ==
    /\ qres = NoQuery
    /\ plan \in InsertPlans(Len(ChunksOfInput(in)))
    /\ qres' = [kind |-> "insert", cs |-> ChunksOfInput(in), vecOn |-> vecOn, plan |-> plan,
                t |-> insertChunks(ChunksOfInput(in),
                                   [i \in 1..Len(ChunksOfInput(in)) |->
                                       EmbeddingOf(ChunksOfInput(in)[i].text)],
                                   V9, vecOn, plan)]
    /\ UNCHANGED <<envVars, dbVars, procVars, hist>>

\* Each function is applied once, to the fresh state.
FnNext ==
    \/ /\ qres = NoQuery
       /\ \E limit \in 1..MaxRrfLimit :
             \E vectorRank \in 1..(2 * limit), textRank \in 1..(2 * limit) :
                Score(limit, vectorRank, textRank)
    \/ /\ qres = NoQuery
       /\ \E ls \in LineLists, relPath \in Paths, k \in 1..Len(SOURCES) :
             ChunkFile(ls, relPath, SOURCES[k])
    \/ /\ qres = NoQuery
       /\ \E in \in InsertInputs, vecOn \in BOOLEAN :
             \E plan \in InsertPlans(Len(ChunksOfInput(in))) : InsertChunks(in, vecOn, plan)
    \/ /\ qres = NoQuery
       /\ \E query \in ExpandQueries : ExpandQuery(query)
    \/ /\ qres = NoQuery
       /\ \E in \in InsertInputs, responses \in ResponseSeqs :
             EmbedBatch(ChunksOfInput(in)[1].text, responses)

FnSpec == FnInit /\ [][FnNext]_vars

\* ------------------------------------------------------------------------
\* Properties
\* ------------------------------------------------------------------------
RowsOf(tbl, path) == {r \in tbl : r.path = path}
FtsRowsOf(fts, path) == SelectSeq(fts, LAMBDA r : r.path = path)
VecRowsOf(vec, ids) == {r \in vec : r.id \in ids}
SameEntry(a, b, path) ==
    /\ (path \in DOMAIN a) = (path \in DOMAIN b)
    /\ path \in DOMAIN a => a[path] = b[path]

\* The manifest entry, chunk records and keyword/vector entries of a path
\* are as they were when the run started.
Untouched(path) ==
    /\ SameEntry(files, hist.snapFiles, path)
    /\ RowsOf(chunks, path) = RowsOf(hist.snapChunks, path)
    /\ FtsRowsOf(chunks_fts, path) = FtsRowsOf(hist.snapFts, path)
    /\ VecRowsOf(chunks_vec, ChunkIdsOf(hist.snapChunks, path))
         = VecRowsOf(hist.snapVec, ChunkIdsOf(hist.snapChunks, path))

SourceOf(path) == CHOOSE i \in 1..Len(SOURCES) : matchSource(path, SOURCES[i])
\* The identifiers of the chunks of the current content of a path.
CurrentChunkIds(path) ==
    IF tree[path] = Absent THEN {}
    ELSE LET cs == chunkFile(readFileSync(path), path, SOURCES[SourceOf(path)])
         IN {cs[i].id : i \in 1..Len(cs)}

\* The paths the run found with a manifest entry of another hash.
ChangedPaths ==
    {p \in Paths : /\ tree[p] # Absent
                   /\ p \in DOMAIN hist.snapFiles
                   /\ hist.snapFiles[p].hash # sha256(readFileSync(p))}
UnchangedPaths ==
    {p \in Paths : /\ tree[p] # Absent
                   /\ p \in DOMAIN hist.snapFiles
                   /\ hist.snapFiles[p].hash = sha256(readFileSync(p))}
\* The (source, path) pairs a run discovers.
Discovered ==
    {sp \in {SOURCES[i] : i \in 1..Len(SOURCES)} \X Paths :
        tree[sp[2]] # Absent /\ matchSource(sp[2], sp[1])}

FtsIds == {chunks_fts[i].id : i \in 1..Len(chunks_fts)}
ChunkIds == {r.id : r \in chunks}
VecIds == {r.id : r \in chunks_vec}
FtsOneToOne ==
    /\ FtsIds = ChunkIds
    /\ \A i, j \in 1..Len(chunks_fts) : chunks_fts[i].id = chunks_fts[j].id => i = j
VecOneToOne == VecIds = ChunkIds

\* C1: when embedding the chunks of a changed file fails fatally, the file
\* is left at its previous indexed state: old hash, old chunk records and
\* their keyword/vector entries.
C1_EmbedFailureKeepsPreviousState ==
    (pc = "fatal" /\ hist.outcome = "embed")
        => \A p \in hist.failedPaths \cap DOMAIN hist.snapFiles : Untouched(p)

\* C2: when a chunk-record write fails inside insertChunks, all changes of
\* the file are rolled back: no partial state, manifest hash unchanged.
C2_ChunkWriteFailureRollsBackFile ==
    (pc = "fatal" /\ hist.outcome = "chunk")
        => \A p \in hist.failedPaths \cap Paths :
              /\ SameEntry(files, hist.snapFiles, p)
              /\ RowsOf(chunks, p) = RowsOf(hist.snapChunks, p)

\* C3: an embedding or storage failure on one file does not abort the run:
\* every discovered file is still processed and the deletion sweep is done.
C3_FailureIsFileScoped ==
    (pc = "fatal" /\ hist.failedPaths \cap Paths # {})
        => /\ Discovered \subseteq hist.visited
           /\ hist.sweepDone

\* C4: after a run failed on a changed file, a later run over the same
\* source tree without embedding or storage failure leaves the chunk table
\* with exactly the chunks of the file's current content.
C4_LaterRunReprocessesFailedFile ==
    (pc = "summary" /\ hist.faults = hist.faultsBefore)
        => \A p \in hist.owed : ChunkIdsOf(chunks, p) = CurrentChunkIds(p)

\* C5: at every point of a run a reader finds, for every file, its complete
\* old or its complete new chunk set, and no keyword entry whose chunk
\* record is gone.
C5_FileUpdateIsAtomicForReaders ==
    (pc # "idle" /\ hist.faults = 0)
        => /\ \A p \in Paths :
                 ChunkIdsOf(chunks, p) \in {ChunkIdsOf(hist.snapChunks, p), CurrentChunkIds(p)}
           /\ FtsIds \subseteq ChunkIds

\* C6: a file of unchanged content, indexed again without the force flag,
\* is counted as skipped; it is not chunked, embedded or written, and its
\* stored chunks are those of the first run.
C6_IdempotentReindex ==
    (pc # "idle" /\ ~force)
        => /\ totals.skipped = Cardinality(hist.skips)
           /\ \A sp \in hist.visited :
                 sp[2] \in UnchangedPaths
                    => /\ sp \in hist.skips
                       /\ sp[2] \notin hist.chunked \cup hist.embedded
                                         \cup hist.deleted \cup hist.inserted
                       /\ Untouched(sp[2])
                       /\ ChunkIdsOf(chunks, sp[2]) = ChunkIdsOf(hist.snapChunks, sp[2])

C6_Witness ==
    /\ pc = "summary"
    /\ ~force
    /\ hist.runs = 2
    /\ \E sp \in hist.skips : ChunkIdsOf(chunks, sp[2]) # {}

\* C7: when exactly one file changed between two non-forced runs, the
\* second run deletes, re-inserts and re-embeds the chunks of that file
\* only; the manifest entries and chunk records of every other file are
\* unchanged.
C7_OnlyChangedFileReprocessed ==
    (/\ pc = "summary"
     /\ ~force
     /\ hist.prev = "ok"
     /\ hist.faults = 0
     /\ Cardinality(ChangedPaths) = 1
     /\ \A p \in Paths : p \in ChangedPaths \cup UnchangedPaths
                         \/ (tree[p] = Absent /\ p \notin DOMAIN hist.snapFiles))
        => /\ hist.embedded \subseteq ChangedPaths
           /\ hist.deleted \subseteq ChangedPaths
           /\ hist.inserted \subseteq ChangedPaths
           /\ \A q \in (DOMAIN hist.snapFiles) \ ChangedPaths :
                 /\ SameEntry(files, hist.snapFiles, q)
                 /\ RowsOf(chunks, q) = RowsOf(hist.snapChunks, q)

\* C8: after a completed run, a path with a manifest entry from an earlier
\* run that was not discovered has no manifest entry, chunk record or
\* keyword/vector entry left; discovered unchanged paths are untouched.
C8_DeletionSweep ==
    pc = "summary"
        => /\ \A p \in (DOMAIN hist.snapFiles) \ allDiscoveredPaths :
                 /\ p \notin DOMAIN files
                 /\ RowsOf(chunks, p) = {}
                 /\ FtsRowsOf(chunks_fts, p) = <<>>
                 /\ VecRowsOf(chunks_vec, ChunkIdsOf(hist.snapChunks, p)) = {}
           /\ ~force => \A p \in UnchangedPaths : Untouched(p)

\* C9 (as stated): after completed runs without index write or delete
\* failure the keyword index holds exactly one entry per chunk record, and
\* so does the vector index in every run where the vector backend is loaded.
C9_ThreeViewsPerRun ==
    (pc = "summary" /\ hist.faults = 0)
        => /\ FtsOneToOne
           /\ vecLoaded => VecOneToOne

\* C9 (amended): after completed runs without index write or delete failure
\* the keyword index holds exactly one entry per chunk record, and so does
\* the vector index when the vector backend was loaded in every run so far.
C9_ThreeViews ==
    (pc = "summary" /\ hist.faults = 0)
        => /\ FtsOneToOne
           /\ hist.vecAlways => VecOneToOne

C9_Witness ==
    /\ pc = "summary"
    /\ hist.faults = 0
    /\ hist.vecAlways
    /\ hist.runs = 2
    /\ hist.deleted \cap Paths # {}
    /\ hist.inserted \cap Paths # {}
    /\ chunks_vec # {}

\* C10: when the vector backend is not loaded, hybridSearch returns the
\* chunk identifiers of searchFTS in the same order, for every query, limit
\* and filter combination.
C10_HybridEqualsKeywordWithoutVectors ==
    (qres.kind = "query" /\ ~qres.vec) => IdsOf(qres.hybrid) = IdsOf(qres.fts)

\* ------------------------------------------------------------------------
\* Properties of the searches
\* ------------------------------------------------------------------------
PositionsOf(list, id) == {i \in 1..Len(list) : list[i].id = id}
\* The ranks an id can be given in a candidate list: its positions, or 0
\* (no rank, component 0) when it is not in the list.
RanksIn(list, id) == IF PositionsOf(list, id) = {} THEN {0} ELSE PositionsOf(list, id)
\* 1/(60 + vr) if vr # 0, plus 1/(60 + tr) if tr # 0, as a fraction.
RrfOf(vr, tr) ==
    CASE vr # 0 /\ tr # 0 -> [num |-> (60 + vr) + (60 + tr), den |-> (60 + vr) * (60 + tr)]
      [] vr # 0 /\ tr = 0 -> [num |-> 1, den |-> 60 + vr]
      [] vr = 0 /\ tr # 0 -> [num |-> 1, den |-> 60 + tr]
      [] OTHER -> [num |-> 0, den |-> 1]
SameScore(a, b) == a.num * b.den = b.num * a.den
AtMostScore(a, b) == a.num * b.den <= b.num * a.den
\* The fused scores the claim's formula gives an id of the last query.
RrfScoresOf(id) ==
    {RrfOf(vr, tr) : vr \in RanksIn(qres.vecResults, id), tr \in RanksIn(qres.ftsResults, id)}
MergedIds == {qres.vecResults[i].id : i \in 1..Len(qres.vecResults)}
             \cup {qres.ftsResults[i].id : i \in 1..Len(qres.ftsResults)}
HybridIds == {qres.hybrid[i].id : i \in 1..Len(qres.hybrid)}

\* C11: hybridSearch returns at most limit results, no id twice, each with
\* the score 1/(60+vectorRank) + 1/(60+textRank) of its ranks in the two
\* candidate lists of at most 2*limit entries, and the results are the
\* top limit of the merged candidates by that score.
C11_RrfScoring ==
    qres.kind = "query"
        => /\ Len(qres.vecResults) <= 2 * qres.limit
           /\ Len(qres.ftsResults) <= 2 * qres.limit
           /\ Len(qres.hybrid) = Min(qres.limit, Cardinality(MergedIds))
           /\ \A i, j \in 1..Len(qres.hybrid) :
                 qres.hybrid[i].id = qres.hybrid[j].id => i = j
           /\ HybridIds \subseteq MergedIds
           /\ \A i \in 1..Len(qres.hybrid) :
                 /\ \E f \in RrfScoresOf(qres.hybrid[i].id) : SameScore(qres.hybrid[i].score, f)
                 /\ \A j \in (i + 1)..Len(qres.hybrid) :
                       AtMostScore(qres.hybrid[j].score, qres.hybrid[i].score)
                 /\ \A id \in MergedIds \ HybridIds :
                       \E f \in RrfScoresOf(id) : AtMostScore(f, qres.hybrid[i].score)

C11_Witness ==
    /\ qres.kind = "query"
    /\ qres.vec
    /\ Cardinality(MergedIds) > qres.limit
    /\ \E i \in 1..Len(qres.hybrid) :
          /\ PositionsOf(qres.vecResults, qres.hybrid[i].id) # {}
          /\ PositionsOf(qres.ftsResults, qres.hybrid[i].id) # {}
    /\ \E id \in MergedIds : PositionsOf(qres.vecResults, id) = {}

C13_RrfMonotone ==
    qres.kind = "rrf"
        => /\ qres.vectorOnly[qres.vectorRank].num * qres.score.den
                 < qres.score.num * qres.vectorOnly[qres.vectorRank].den
           /\ qres.textOnly[qres.textRank].num * qres.score.den
                 < qres.score.num * qres.textOnly[qres.textRank].den

C13_Witness ==
    /\ qres.kind = "rrf"
    /\ qres.vectorRank = 1
    /\ qres.textRank = 2 * qres.limit
    /\ qres.limit = MaxLimit

\* C15: when no piece of the query text is a word, keyword search returns
\* the empty list and hybridSearch returns the ids of the vector candidates
\* in vector-rank order, cut to limit.
C15_MalformedQuery ==
    (qres.kind = "query" /\ \A i \in 1..Len(qres.raw) : qres.raw[i] \in NonWords)
        => /\ qres.fts = <<>>
           /\ qres.ftsResults = <<>>
           /\ Len(qres.hybrid) <= qres.limit
           /\ Len(qres.hybrid) = Len(qres.vecResults) \/ Len(qres.hybrid) = qres.limit
           /\ \A i \in 1..Len(qres.hybrid) : qres.hybrid[i].id = qres.vecResults[i].id

C15_Witness ==
    /\ qres.kind = "query"
    /\ \A i \in 1..Len(qres.raw) : qres.raw[i] \in NonWords
    /\ Len(qres.vecResults) > qres.limit
    /\ Len(qres.hybrid) = qres.limit
    /\ qres.vecResults[1].id # qres.vecResults[2].id

\* The number a tag's digits denote: the release's place in version order.
RECURSIVE VersionNumber(_)
VersionNumber(tag) ==
    IF tag = <<>> THEN 0
    ELSE 10 * VersionNumber(SubSeq(tag, 1, Len(tag) - 1)) + CharCode(tag[Len(tag)]) - 1

\* C20: getChunksSinceRelease(tag, limit) returns at most limit chunks, each
\* stamped with a release at or after tag in version order, newest release
\* first and by path within a release; a chunk stamped at or after tag is
\* left out only when limit chunks are returned.
C20_SinceReleaseInVersionOrder ==
    qres.kind = "since"
        => /\ Len(qres.rows) <= qres.limit
           /\ \A i \in 1..Len(qres.rows) :
                 VersionNumber(qres.rows[i].indexed_release) >= VersionNumber(qres.tag)
           /\ \A i, j \in 1..Len(qres.rows) :
                 i < j => \/ VersionNumber(qres.rows[i].indexed_release)
                                > VersionNumber(qres.rows[j].indexed_release)
                          \/ /\ qres.rows[i].indexed_release = qres.rows[j].indexed_release
                             /\ PathCode(qres.rows[i].path) <= PathCode(qres.rows[j].path)
           /\ \/ Len(qres.rows) = qres.limit
              \/ \A r \in chunks :
                    (r.indexed_release # NoRelease
                       /\ VersionNumber(r.indexed_release) >= VersionNumber(qres.tag))
                        => \E i \in 1..Len(qres.rows) : qres.rows[i] = r

\* ------------------------------------------------------------------------
\* Properties of the chunker
\* ------------------------------------------------------------------------
LinesOfChunk(c) == c.text.lines
IsSuffixOf(a, b) == Len(a) <= Len(b) /\ SubSeq(b, Len(b) - Len(a) + 1, Len(b)) = a
IsPrefixOf(a, b) == Len(a) <= Len(b) /\ SubSeq(b, 1, Len(a)) = a
\* The chunks cs[k..] cover rest: each chunk splits into an overlap, a
\* trailing run of the lines of the chunk before it (none for the first
\* chunk), and at least one line of its own, and the own lines of the chunks
\* concatenated are rest.
RECURSIVE Covers(_, _, _)
Covers(cs, k, rest) ==
    IF k > Len(cs) THEN rest = <<>>
    ELSE \E n \in 0..(Len(LinesOfChunk(cs[k])) - 1) :
            LET own == SubSeq(LinesOfChunk(cs[k]), n + 1, Len(LinesOfChunk(cs[k])))
            IN /\ IF k = 1 THEN n = 0
                  ELSE IsSuffixOf(SubSeq(LinesOfChunk(cs[k]), 1, n), LinesOfChunk(cs[k - 1]))
               /\ IsPrefixOf(own, rest)
               /\ Covers(cs, k + 1, SubSeq(rest, Len(own) + 1, Len(rest)))

\* C16: the lines of the chunks of a file that are not overlap carried over
\* from the chunk before, concatenated in chunk order, are the lines of the
\* file, each once and in order.
C16_ChunkCoverage ==
    qres.kind = "chunks" => Covers(qres.chunks, 1, qres.lines)

C16_Witness ==
    /\ qres.kind = "chunks"
    /\ Len(qres.chunks) >= 2
    /\ Len(qres.lines) = MaxLines
    /\ \E k \in 2..Len(qres.chunks) :
          LinesOfChunk(qres.chunks[k])[1]
              = LinesOfChunk(qres.chunks[k - 1])[Len(LinesOfChunk(qres.chunks[k - 1]))]

\* The chunks cs[k..] cover rest as in Covers, `before` source lines precede
\* the break point of chunk k, and the overlap of each chunk after the first
\* has at most CHUNK_OVERLAP_CHARS characters, and at least one when two or
\* more source lines precede its break point.
RECURSIVE CoversWithOverlap(_, _, _, _)
CoversWithOverlap(cs, k, rest, before) ==
    IF k > Len(cs) THEN rest = <<>>
    ELSE \E n \in 0..(Len(LinesOfChunk(cs[k])) - 1) :
            LET overlap == SubSeq(LinesOfChunk(cs[k]), 1, n)
                own == SubSeq(LinesOfChunk(cs[k]), n + 1, Len(LinesOfChunk(cs[k])))
            IN /\ IF k = 1 THEN n = 0
                  ELSE /\ IsSuffixOf(overlap, LinesOfChunk(cs[k - 1]))
                       /\ SumChars(overlap) <= CHUNK_OVERLAP_CHARS
                       /\ before >= 2 => SumChars(overlap) > 0
               /\ IsPrefixOf(own, rest)
               /\ CoversWithOverlap(cs, k + 1, SubSeq(rest, Len(own) + 1, Len(rest)),
                                    before + Len(own))

\* C17: every chunk after the first begins with an overlap that is a
\* trailing run of whole lines of the chunk before it, of at most 200
\* characters (each line counted with its newline), and of more than 0
\* characters when at least two source lines precede the break point.
C17_OverlapBound ==
    qres.kind = "chunks" => CoversWithOverlap(qres.chunks, 1, qres.lines, 0)

\* C18: chunkFile returns the empty chunk list for an empty file.
C18_EmptyFileNoChunks ==
    (qres.kind = "chunks" /\ qres.content = <<>>) => qres.chunks = <<>>

\* C19: a chunk of chunkFile holds endLine - startLine lines, the lines of
\* the file numbered startLine up to but not including endLine, and its
\* header names the same range.
C19_ExclusiveEndLine ==
    qres.kind = "chunks"
        => \A k \in 1..Len(qres.chunks) :
              LET c == qres.chunks[k]
              IN /\ c.startLine >= 1
                 /\ Len(LinesOfChunk(c)) = c.endLine - c.startLine
                 /\ c.endLine - 1 <= Len(qres.lines)
                 /\ LinesOfChunk(c) = SubSeq(qres.lines, c.startLine, c.endLine - 1)
                 /\ c.text.from = c.startLine
                 /\ c.text.to = c.endLine

\* ------------------------------------------------------------------------
\* Properties of the filters
\* ------------------------------------------------------------------------
MatchesFilters(source, contentType) ==
    /\ qres.sourceFilter # NoFilter => source = qres.sourceFilter
    /\ qres.contentTypeFilter # NoFilter => contentType = qres.contentTypeFilter

InsertedIds == {qres.cs[i].id : i \in 1..Len(qres.cs)}
\* The tables after the call hold the chunk record of every chunk of the
\* batch, a vector entry of every chunk but those in noVec when the backend
\* is loaded, and one keyword entry of every chunk but those in noFts.
Persisted(noFts, noVec) ==
    /\ qres.t.result = "commit"
    /\ {r.id : r \in qres.t.chunks} = InsertedIds
    /\ \A i \in 1..Len(qres.cs) :
          \E r \in qres.t.chunks : r.id = qres.cs[i].id /\ r.text = qres.cs[i].text
    /\ {qres.t.fts[j].id : j \in 1..Len(qres.t.fts)}
          = {qres.cs[i].id : i \in (1..Len(qres.cs)) \ noFts}
    /\ Len(qres.t.fts) = Len(qres.cs) - Cardinality(noFts)
    /\ {r.id : r \in qres.t.vec}
          = IF qres.vecOn THEN {qres.cs[i].id : i \in (1..Len(qres.cs)) \ noVec} ELSE {}

\* C21: when the keyword write of one chunk fails inside insertChunks the
\* transaction commits, every chunk record and every other keyword and
\* vector entry of the batch is stored, and only that chunk has no keyword
\* entry.
C21_KeywordWriteFailureNonFatal ==
    (qres.kind = "insert" /\ qres.plan.kind = "fts" /\ Cardinality(qres.plan.fts) = 1)
        => Persisted(qres.plan.fts, {})

C21_Witness ==
    /\ qres.kind = "insert"
    /\ qres.plan.kind = "fts"
    /\ qres.plan.fts = {2}
    /\ Len(qres.cs) = MaxHandlerLines
    /\ qres.vecOn
    /\ Len(qres.t.fts) = MaxHandlerLines - 1

\* C22: when the vector write of one chunk fails inside insertChunks the
\* transaction commits, every chunk record and keyword entry and every other
\* vector entry of the batch is stored.
C22_VectorWriteFailureNonFatal ==
    (qres.kind = "insert" /\ qres.plan.kind = "vec" /\ qres.vecOn)
        => Persisted({}, {qres.plan.at})

\* ------------------------------------------------------------------------
\* Properties of the synonym expander
\* ------------------------------------------------------------------------
\* The synonyms SYNONYMS holds for the words of the last expanded query.
SynonymsOfQuery ==
    UNION {IF qres.query[i].base \in DOMAIN SYNONYMS
           THEN {SYNONYMS[qres.query[i].base][j] :
                    j \in 1..Len(SYNONYMS[qres.query[i].base])}
           ELSE {} : i \in 1..Len(qres.query)}

\* C23: expandQuery raises no error for any query, and returns the original
\* query unmodified followed by synonyms of its words, each at most once.
C23_ExpandQueryNeverFails ==
    qres.kind = "expand"
        => /\ qres.result = "ok"
           /\ qres.text.original = qres.query
           /\ \A i \in 1..Len(qres.text.synonyms) : qres.text.synonyms[i] \in SynonymsOfQuery
           /\ \A i, j \in 1..Len(qres.text.synonyms) :
                 qres.text.synonyms[i] = qres.text.synonyms[j] => i = j

\* ------------------------------------------------------------------------
\* Properties of the embedding client
\* ------------------------------------------------------------------------
\* The answers to the requests the call made.
AnswersSeen == {qres.responses[i] : i \in 1..qres.r.requests}

\* C24: a call that meets only transient failures (rate limit, network
\* failure, server error) raises an error only after the bounded number of
\* attempts, MAX_RETRIES + 1 requests, is used up.
C24_TransientFailuresRetried ==
    (qres.kind = "embed" /\ qres.r.result = "error" /\ AnswersSeen \subseteq {429, 0, 500})
        => qres.r.requests = MAX_RETRIES + 1

\* C25: one embedBatch call makes at most 4 requests and ends by returning
\* the vectors of a 200 response or by raising an error; a 429 answer to the
\* last attempt raises an error.
C25_RetryLoopBounded ==
    qres.kind = "embed"
        => /\ qres.r.requests >= 1
           /\ qres.r.requests <= 4
           /\ qres.r.result \in {"ok", "error"}
           /\ qres.r.result = "ok"
                 => /\ qres.responses[qres.r.requests] = 200
                    /\ Len(qres.r.vectors) = Len(qres.texts)
                    /\ \A i \in 1..(qres.r.requests - 1) : qres.responses[i] = 429
           /\ qres.r.result = "error" => qres.responses[qres.r.requests] # 200
           /\ (\A i \in 1..4 : qres.responses[i] = 429)
                 => (qres.r.result = "error" /\ qres.r.requests = 4)

C25_Witness ==
    /\ qres.kind = "embed"
    /\ \A i \in 1..4 : qres.responses[i] = 429
    /\ qres.r.requests = 4

\* ------------------------------------------------------------------------
\* Properties of the order of hybridSearch
\* ------------------------------------------------------------------------
\* The place at which hybridSearch first meets an id: in the vector
\* candidates, then in the keyword candidates.
FirstSeen(id) ==
    LET all == IdsOf(qres.vecResults) \o IdsOf(qres.ftsResults)
    IN CHOOSE i \in 1..Len(all) : all[i] = id /\ \A j \in 1..(i - 1) : all[j] # id

\* C26: the results of hybridSearch are in descending order of fused score,
\* and results of equal score are in the order in which they were first
\* met: vector candidates in vector-rank order, then keyword-only candidates
\* in keyword-rank order.
C26_SortedByScoreStable ==
    qres.kind = "query"
        => \A i, j \in 1..Len(qres.hybrid) :
              i < j => \/ FracLess(qres.hybrid[j].score, qres.hybrid[i].score)
                       \/ /\ SameScore(qres.hybrid[i].score, qres.hybrid[j].score)
                          /\ FirstSeen(qres.hybrid[i].id) < FirstSeen(qres.hybrid[j].id)

C26_Witness ==
    /\ qres.kind = "query"
    /\ Len(qres.hybrid) >= 2
    /\ SameScore(qres.hybrid[1].score, qres.hybrid[2].score)
    /\ RankOf(qres.vecResults, qres.hybrid[1].id) # 0
    /\ RankOf(qres.vecResults, qres.hybrid[2].id) = 0
    /\ RankOf(qres.ftsResults, qres.hybrid[2].id) # 0

\* ------------------------------------------------------------------------
\* Properties of the chunk boundaries
\* ------------------------------------------------------------------------
IsCodePath(relPath) == Ext(relPath) \in {"ts", "js"}
\* The line at which chunk k of the last chunkFile call was closed: the line
\* after its last line.
BreakLine(k) == qres.lines[qres.chunks[k].endLine + 1]
StrongKinds == {"function", "class", "type", "constfunc"}
WeakKinds == {"heading", "blank"}
\* The hard override: the closed chunk holds more than 1.2 times maxChars.
Overridden(k, maxChars) == 10 * SumChars(LinesOfChunk(qres.chunks[k])) > 12 * maxChars

\* C27 (as stated): in a code file a chunk is closed only at a line that
\* opens a function, class, type or const-assigned function, never at a
\* blank or heading line; in another file only at a heading or blank line or
\* by the hard override.
C27_OnlyStrongBoundaryBreaksCode ==
    qres.kind = "chunks"
        => \A k \in 1..(Len(qres.chunks) - 1) :
              IF IsCodePath(qres.relPath)
              THEN BreakLine(k).kind \in StrongKinds
              ELSE BreakLine(k).kind \in WeakKinds \/ Overridden(k, CHUNK_MAX_CHARS)

\* C27 (amended): in a code file a chunk is closed only at a line that opens
\* a function, class, type or const-assigned function, or by the hard
\* override (at any line, blank and heading lines included); in another file
\* only at a heading or blank line or by the hard override; in both only
\* when the line would take the chunk over its budget.
C27_BoundaryOrOverride ==
    qres.kind = "chunks"
        => \A k \in 1..(Len(qres.chunks) - 1) :
              IF IsCodePath(qres.relPath)
              THEN /\ BreakLine(k).kind \in StrongKinds \/ Overridden(k, CODE_MAX_CHARS)
                   /\ SumChars(LinesOfChunk(qres.chunks[k])) + BreakLine(k).len + 1
                         > CODE_MAX_CHARS
              ELSE /\ BreakLine(k).kind \in WeakKinds \/ Overridden(k, CHUNK_MAX_CHARS)
                   /\ SumChars(LinesOfChunk(qres.chunks[k])) + BreakLine(k).len + 1
                         > CHUNK_MAX_CHARS

C27_Witness ==
    /\ qres.kind = "chunks"
    /\ IsCodePath(qres.relPath)
    /\ Len(qres.chunks) = 2
    /\ Len(qres.lines) = MaxLines
    /\ BreakLine(1).kind = "blank"
    /\ Overridden(1, CODE_MAX_CHARS)

\* ------------------------------------------------------------------------
\* Properties of a run over an unchanged checkout
\* ------------------------------------------------------------------------
\* The source tree and the releases table are as the previous completed run
\* indexed them: every file has a manifest entry of its hash, every manifest
\* entry of a file has its file, and every release has its changelog entry.
UnchangedSinceLastRun ==
    /\ hist.prev = "ok"
    /\ \A p \in Paths :
          IF tree[p] = Absent THEN p \notin DOMAIN hist.snapFiles ELSE p \in UnchangedPaths
    /\ \A tag \in releases :
          /\ ReleasePath(tag) \in DOMAIN hist.snapFiles
          /\ RowsOf(hist.snapChunks, ReleasePath(tag)) # {}

\* C28: a run without the force flag over a source tree and a releases table
\* unchanged since the last completed run embeds nothing, deletes and
\* inserts no chunk record, and leaves the manifest, the chunk table and the
\* two indexes as they were.
C28_UnchangedRunReprocessesNothing ==
    (pc = "summary" /\ ~force /\ hist.faults = 0 /\ UnchangedSinceLastRun)
        => /\ hist.embedded = {}
           /\ hist.deleted = {}
           /\ hist.inserted = {}
           /\ files = hist.snapFiles
           /\ chunks = hist.snapChunks
           /\ chunks_fts = hist.snapFts
           /\ chunks_vec = hist.snapVec

\* ------------------------------------------------------------------------
\* Properties of the results of a search
\* ------------------------------------------------------------------------
\* A result names a chunk of the chunk table, with its stored path and lines.
RefersToStoredChunk(r) ==
    \E c \in chunks : /\ c.id = r.id
                      /\ c.path = r.path
                      /\ c.start_line = r.startLine
                      /\ c.end_line = r.endLine

\* C29: every result of searchFTS and of hybridSearch names a chunk that is
\* in the chunk table, with that chunk's stored path and line range, also
\* after a keyword delete of deleteChunksByPath failed and was ignored.
C29_ResultsReferToStoredChunks ==
    qres.kind = "query"
        => /\ \A i \in 1..Len(qres.fts) : RefersToStoredChunk(qres.fts[i])
           /\ \A i \in 1..Len(qres.hybrid) : RefersToStoredChunk(qres.hybrid[i])

\* ------------------------------------------------------------------------
\* Properties of the auto-update
\* ------------------------------------------------------------------------
\* Every chunk of every file of the checkout is in the chunk table.
KbAtCheckout ==
    \A p \in Paths :
        tree[p] # Absent
            => LET source == SOURCES[CHOOSE k \in 1..Len(SOURCES) : matchSource(p, SOURCES[k])]
                   cs == chunkFile(readFileSync(p), p, source)
               IN \A i \in 1..Len(cs) : \E c \in chunks : c.id = cs[i].id

\* C30: a sync run reports "Already on latest release" only when the
\* re-index of that release did not fail or the knowledge base holds the
\* checkout: after a failed re-index of the latest tag the next sync run
\* re-attempts it instead of leaving the old index in place.
C30_FailedReindexIsRetried ==
    (qres.kind = "sync" /\ qres.outcome = "already")
        => (hist.prev # "failed" \/ KbAtCheckout)

====
